---- MODULE Spec2Model ----
(***************************************************************************)
(* Monaco Actor playback engine: the TimelineScheduler                     *)
(* (web/src/timeline/scheduler.ts), the audio element it reads as its      *)
(* clock, and the App handlers (web/src/App.tsx) that pair the scheduler   *)
(* with the ActionExecutor (web/src/editor/actionExecutor.ts).             *)
(*                                                                         *)
(* Every action below is one whole handler or public method: the loop of   *)
(* tick, the trailing stop() of reset, the sort inside setActions are part *)
(* of the action.  Times are milliseconds.                                 *)
(***************************************************************************)
EXTENDS Integers, Sequences, FiniteSets, TLC

(* ------------------------------ bounds -------------------------------- *)
\* Longest action list handed to the scheduler.
MaxActions == 2
\* Clock readings and action times are multiples of TimeStep, up to MaxTick steps.
TimeStep == 16
MaxTick == 2
\* Longest log of executed actions kept for the executor (App level).
MaxApplied == 4
\* Longest text of a type action, in characters.
MaxText == 2
\* Number of type actions the executor is given.
MaxTypes == 2
\* Number of highlight_range actions the executor is given.
MaxHighlights == 2
\* Number of other actions (create_file, open_file, move_cursor, terminal
\* actions, unrecognized kinds) and of reset() calls the executor is given;
\* also the number of calls of all kinds in a run of the executor on its own.
MaxDocOps == 2

(* ------------------------- program constants -------------------------- *)
\* options.toleranceMs ?? 16
ToleranceMs == 16
\* window.setInterval(tick, 16), and the 16 of the chunk size of a typing tick
TypingTickMs == 16

Times == {i * TimeStep : i \in 0..MaxTick}

\* A caller's action list: element i is the timeMs of the i-th action; the
\* action's identity (its id) is its position i in the caller's list.
ActionLists == UNION {[1..n -> Times] : n \in 0..MaxActions}

\* "no value" for the history variables that hold a time or a count.
None == 0 - 1

\* Time arguments that are not finite numbers.
NonFinite == {"NaN", "Infinity", "-Infinity"}

\* File paths of the virtual file system.
Paths == {"a.ts", "b.ts"}

\* Typing-rate specifiers of a type action: charactersPerSecond and delayMs,
\* 0 standing for an absent field.
Rates == {[charactersPerSecond |-> 0, delayMs |-> 0],
          [charactersPerSecond |-> 60, delayMs |-> 0],
          [charactersPerSecond |-> 125, delayMs |-> 0],
          [charactersPerSecond |-> 0, delayMs |-> 16]}

\* FALLBACK_TIMELINE: the timeMs of its two actions.
FallbackTimeline == <<0, 400>>

\* Why a timeline could not be loaded: the response is not ok or the file
\* cannot be read or parsed, or the JSON has no actions array.
LoadFailures == {"unreadable", "missing actions array"}

\* Typing rates from one character per second to several characters per tick,
\* given as charactersPerSecond or as the delayMs of the whole text.
RateRange == {[charactersPerSecond |-> 1, delayMs |-> 0],
              [charactersPerSecond |-> 10, delayMs |-> 0],
              [charactersPerSecond |-> 60, delayMs |-> 0],
              [charactersPerSecond |-> 125, delayMs |-> 0],
              [charactersPerSecond |-> 0, delayMs |-> 1000],
              [charactersPerSecond |-> 0, delayMs |-> 16]}

\* durationMs of a highlight_range action, 0 standing for an absent field.
Durations == {0, 500}

\* Kinds of action that only touch the terminal.
TerminalKinds == {"terminal_run", "terminal_output", "clear_terminal"}

\* this.typingState = null
NoTyping == [path |-> "", id |-> 0, len |-> 0, offsetChars |-> 0, cps |-> 0]

(* ------------------------------ state --------------------------------- *)
VARIABLES
  actions,          \* this.actions: sequence of [id, timeMs]
  pointer,          \* this.pointer
  running,          \* this.running
  completeEmitted,  \* this.completeEmitted
  frameHandle,      \* this.frameHandle !== null
  frames,           \* number of requestAnimationFrame callbacks pending
  listening,        \* 'seeked'/'ended' listeners attached to the audio element
  clock,            \* audio.currentTime * 1000
  seekedPending,    \* a 'seeked' event of the audio element is queued
  audioPlaying,     \* the audio element is playing (App level)
  status,           \* App: PlayerStatus
  applied,          \* executor: ids of the actions executed, in order
  isBatch,          \* executor: this.isBatch
  last,             \* history: the operation that made the last step
  pristine,         \* history: only start/stop/tick/clock progress since construction
  fired,            \* history: onAction invocations while pristine
  seenNow,          \* history: latest clock reading of a tick while pristine or since a jump
  passRaised,       \* history: onComplete invocations in the current pass (capped at 2)
  runRaised,        \* history: as passRaised, a start() of a stopped scheduler also opening a pass
  seeking,          \* history: the seekTo whose 'seeked' event is still to come, with start, stop, ticks and clock progress only since
  jumped,           \* history: target time T of the last jump (stop, clock := T, primeAfter(T))
  call,             \* history: the API call of the last step, its observer notifications, the state it found
  buffers,          \* fs.models: path -> text of the model, a character being <<id of its type action, index>>
  openedPath,       \* fs.openedPath ("" for null)
  typingState,      \* executor: this.typingState (msPerChar kept as cps = 1000 / msPerChar)
  typingInterval,   \* executor: this.typingInterval !== null
  isPlaying,        \* executor: this.isPlaying
  typeCount,        \* number of type actions executed so far (the next one gets id typeCount + 1)
  mutation,         \* history: the model mutation (pushEditOperations) of the last step
  anim,             \* history: per type action id, how its animation ended, where, and whether a tick found it paused
  editor,           \* executor: this.editor !== null (attachEditor has run; the file system has Monaco)
  terminal,         \* executor: this.terminal !== null
  termDirty,        \* the terminal shows output written since it was last cleared
  models,           \* fs.models: the paths that have a model
  cursor,           \* editor.getPosition(), as an offset into the text of the editor's model
  highlightDecorations, \* this.highlightDecorations: the highlight shown (0 for none)
  highlightTimeout, \* this.highlightTimeout: the highlight whose removal timer the handle names (0 for null)
  timers,           \* window timers pending for the removal of a highlight, each named by its highlight
  hlCount,          \* number of highlight_range actions executed so far
  opCount,          \* number of other executor calls made so far
  created,          \* history: the paths create_file has been executed for
  exec,             \* history: the executor call of the last step, its notifications, whether it threw, the document it found
  highlights,       \* history: per highlight, its durationMs and the timer that removed it
  shadow,           \* history: the document the same actions give when all are executed in batch mode
  timelineActions,  \* App: timelineActions as a load handler set it, the timeMs of each action (<<>> before any load)
  timelineError     \* App: timelineError ("" for null)

schedVars == <<actions, pointer, running, completeEmitted, frameHandle, frames, listening>>
audioVars == <<clock, seekedPending, audioPlaying>>
loadVars == <<timelineActions, timelineError>>
appVars == <<status, applied, isBatch, loadVars>>
histVars == <<last, pristine, fired, seenNow, passRaised, runRaised, jumped, seeking>>
docVars == <<editor, terminal, termDirty, models, cursor, highlightDecorations, highlightTimeout,
             timers, hlCount, opCount, created, exec, highlights, shadow>>
execVars == <<buffers, openedPath, typingState, typingInterval, isPlaying, typeCount, mutation, anim,
              docVars>>
vars == <<schedVars, audioVars, appVars, histVars, call, execVars>>

(* --------------------------- pure helpers ----------------------------- *)
Min(a, b) == IF a < b THEN a ELSE b
Max(a, b) == IF a > b THEN a ELSE b

\* Number of actions scheduled at or before t.
CountLE(acts, t) == Cardinality({i \in 1..Len(acts) : acts[i].timeMs <= t})
\* Number of actions scheduled before t.
CountBelow(acts, t) == Cardinality({i \in 1..Len(acts) : acts[i].timeMs < t})
\* Number of actions a tick reading `now` regards as due.
CountDue(acts, now) == Cardinality({i \in 1..Len(acts) : acts[i].timeMs - ToleranceMs <= now})

\* Array.prototype.sort((a, b) => a.timeMs - b.timeMs): a stable sort, as an
\* insertion of each element after every element that does not compare greater.
InsertUnstable(s, a) ==
  LET k == Cardinality({i \in 1..Len(s) : s[i].timeMs < a.timeMs})
  IN SubSeq(s, 1, k) \o <<a>> \o SubSeq(s, k + 1, Len(s))

InsertSorted(s, a) ==
  LET k == Cardinality({i \in 1..Len(s) : s[i].timeMs <= a.timeMs})
  IN SubSeq(s, 1, k) \o <<a>> \o SubSeq(s, k + 1, Len(s))

RECURSIVE SortFrom(_, _, _)
SortFrom(list, i, acc) ==
  IF i > Len(list) THEN acc
  ELSE SortFrom(list, i + 1, InsertSorted(acc, [id |-> i, timeMs |-> list[i]]))

\* The list as the caller wrote it, left unsorted.
SortActionsNone(list) == [i \in 1..Len(list) |-> [id |-> i, timeMs |-> list[i]]]

\* [...actions].sort(...)
SortActions(list) == SortFrom(list, 1, <<>>)

\* while (idx < length && actions[idx].timeMs < timeMs - tolerance) idx += 1
RECURSIVE SyncScan(_, _, _)
SyncScan(acts, idx, timeMs) ==
  IF idx < Len(acts) /\ acts[idx + 1].timeMs < timeMs - ToleranceMs
  THEN SyncScan(acts, idx + 1, timeMs)
  ELSE idx

\* A syncPointer that also skips the action scheduled at timeMs - tolerance.
SyncPointerInclusive(acts, timeMs) ==
  IF timeMs <= 0
  THEN [pointer |-> 0, completeEmitted |-> FALSE]
  ELSE LET idx == Cardinality({i \in 1..Len(acts) : acts[i].timeMs <= timeMs - ToleranceMs})
       IN [pointer |-> idx, completeEmitted |-> (idx >= Len(acts))]

\* A syncPointer that never clears the completion flag.
SyncPointerFlagKept(acts, timeMs) ==
  IF timeMs <= 0
  THEN [pointer |-> 0, completeEmitted |-> TRUE]
  ELSE LET idx == SyncScan(acts, 0, timeMs)
       IN [pointer |-> idx, completeEmitted |-> TRUE]

\* syncPointer(timeMs): the new [pointer, completeEmitted]
SyncPointer(acts, timeMs) ==
  IF timeMs <= 0
  THEN [pointer |-> 0, completeEmitted |-> FALSE]
  ELSE LET idx == SyncScan(acts, 0, timeMs)
       IN [pointer |-> idx, completeEmitted |-> (idx >= Len(acts))]

\* while (idx < length && actions[idx].timeMs <= timeMs + tolerance) idx += 1
RECURSIVE SyncAfterScan(_, _, _)
SyncAfterScan(acts, idx, timeMs) ==
  IF idx < Len(acts) /\ acts[idx + 1].timeMs <= timeMs + ToleranceMs
  THEN SyncAfterScan(acts, idx + 1, timeMs)
  ELSE idx

\* syncPointerAfter(timeMs): the new [pointer, completeEmitted]
SyncPointerAfter(acts, timeMs) ==
  IF timeMs <= 0
  THEN [pointer |-> 0, completeEmitted |-> FALSE]
  ELSE LET idx == SyncAfterScan(acts, 0, timeMs)
       IN [pointer |-> idx, completeEmitted |-> (idx >= Len(acts))]

\* syncPointer(v), v not a finite number.  -Infinity <= 0 holds; NaN fails every
\* comparison, so the scan stops at index 0; every timeMs < Infinity - tolerance.
SyncPointerNonFinite(acts, v) ==
  IF v = "-Infinity" THEN [pointer |-> 0, completeEmitted |-> FALSE]
  ELSE IF v = "NaN" THEN [pointer |-> 0, completeEmitted |-> (0 >= Len(acts))]
  ELSE [pointer |-> Len(acts), completeEmitted |-> TRUE]

\* syncPointerAfter(v), v not a finite number: the same three outcomes, from
\* v <= 0 and timeMs <= v + tolerance.
SyncPointerAfterNonFinite(acts, v) ==
  IF v = "-Infinity" THEN [pointer |-> 0, completeEmitted |-> FALSE]
  ELSE IF v = "NaN" THEN [pointer |-> 0, completeEmitted |-> (0 >= Len(acts))]
  ELSE [pointer |-> Len(acts), completeEmitted |-> TRUE]

\* A resetPointer that rewinds to index 0 whatever the clock reads.
ResetPointerZero(acts, clk) == [pointer |-> 0, completeEmitted |-> FALSE]

\* resetPointer(): pointer 0, flag cleared, then syncPointer when the clock is past 0
ResetPointer(acts, clk) ==
  IF clk > 0 THEN SyncPointer(acts, clk)
  ELSE [pointer |-> 0, completeEmitted |-> FALSE]

\* A tick that fires at most one action and leaves the rest to later ticks.
FireLoopOne(acts, ptr, nowMs) ==
  IF ptr < Len(acts) /\ acts[ptr + 1].timeMs - ToleranceMs <= nowMs
  THEN ptr + 1
  ELSE ptr

\* A tick loop that takes an action as due only once the clock has reached its timeMs.
RECURSIVE FireLoopNoTolerance(_, _, _)
FireLoopNoTolerance(acts, ptr, nowMs) ==
  IF ptr < Len(acts) /\ acts[ptr + 1].timeMs <= nowMs
  THEN FireLoopNoTolerance(acts, ptr + 1, nowMs)
  ELSE ptr

\* A tick loop that takes an action as due only a tolerance after its timeMs.
RECURSIVE FireLoopLate(_, _, _)
FireLoopLate(acts, ptr, nowMs) ==
  IF ptr < Len(acts) /\ acts[ptr + 1].timeMs + ToleranceMs <= nowMs
  THEN FireLoopLate(acts, ptr + 1, nowMs)
  ELSE ptr

\* A tick loop that fires nothing.
FireLoopNone(acts, ptr, nowMs) == ptr

\* The while loop of tick(): the pointer after firing every due action.
RECURSIVE FireLoop(_, _, _)
FireLoop(acts, ptr, nowMs) ==
  IF ptr < Len(acts) /\ acts[ptr + 1].timeMs - ToleranceMs <= nowMs
  THEN FireLoop(acts, ptr + 1, nowMs)
  ELSE ptr

\* What onAction receives for one fired action: the action and its FiredActionMeta.
FiredMeta(a, nowMs) ==
  [id |-> a.id, scheduledTimeMs |-> a.timeMs, actualTimeMs |-> nowMs,
   driftMs |-> nowMs - a.timeMs]

\* The onAction invocations of one tick, in order.
FiredBatch(acts, from, to, nowMs) ==
  [i \in 1..(to - from) |-> FiredMeta(acts[from + i], nowMs)]


(* ------------------------- history records ---------------------------- *)
Last(op, t, from, now, batch, raised, before) ==
  [op |-> op, t |-> t, from |-> from, now |-> now, batch |-> batch,
   raised |-> raised, before |-> before]

Other == Last("other", None, None, None, <<>>, FALSE, None)

Raise(n) == Min(n + 1, 2)

\* A pass ends when the pointer is put back below the action count.
PassAfterMove(n, newPointer, acts) ==
  IF newPointer < Len(acts) THEN 0 ELSE n

\* The same, a repositioning for a clock time <= 0 also ending the pass (it
\* differs from PassAfterMove on an empty timeline only).
RunAfterMove(n, newPointer, acts, timeMs) ==
  IF newPointer < Len(acts) \/ timeMs <= 0 THEN 0 ELSE n

Keep == UNCHANGED <<pristine, fired, seenNow, seeking>>

\* The state a call found.
Before ==
  [pointer |-> pointer, completeEmitted |-> completeEmitted, running |-> running,
   frames |-> frames, clock |-> clock]

NoBefore ==
  [pointer |-> None, completeEmitted |-> FALSE, running |-> FALSE,
   frames |-> None, clock |-> None]

\* A call of the public interface: its argument, the observer callbacks it
\* invoked (in order, each <<name, argument>>), and the state it found.
Call(op, arg, notified, before) ==
  [op |-> op, arg |-> arg, notified |-> notified, before |-> before]

NoCall == Call("none", None, <<>>, NoBefore)

NoMutation == [path |-> "", id |-> 0, count |-> 0]

\* A document: the text of every model, the paths that have a model, the path
\* opened in the editor and the editor's cursor.  This one is the empty document.
NoDocument == [buffers |-> [p \in Paths |-> <<>>], models |-> {}, openedPath |-> "", cursor |-> 0]

\* A call of the executor: the kind of action (or the method), its path, its
\* numeric argument (length of the content or text, offset, durationMs), the
\* onFileOpened / onFileCreated invocations it made (in order, each <<name,
\* path>>), whether it ended in an exception, the document it found and the
\* paths create_file had been executed for.
Exec(kind, path, arg, events, threw, before, createdBefore) ==
  [kind |-> kind, path |-> path, arg |-> arg, events |-> events, threw |-> threw,
   before |-> before, createdBefore |-> createdBefore]

NoExec == Exec("none", "", None, <<>>, FALSE, NoDocument, {})

\* What is remembered of a highlight: its durationMs and the highlight whose
\* timer removed its decoration (0 for none).
NoHighlight == [durationMs |-> 0, removedBy |-> 0]

\* What is remembered of a type action: its path, the length of its text,
\* whether it gave a typing rate, how it was applied ("batch", "paste" or "animated"), whether it took
\* the place of an unfinished animation on its own path, how its animation
\* ended ("superseded", "cancelled", "flushed", "completed"), at which offset,
\* by a type action on which path, the offset at which a tick found it paused,
\* and the number of ticks that pushed characters of it.
NoAnim ==
  [path |-> "", len |-> 0, rated |-> FALSE, mode |-> "none", over |-> FALSE,
   end |-> "none", at |-> None, by |-> "", paused |-> None, ticks |-> 0]

\* A seekTo waiting for its 'seeked' event: its target time, the pointer it
\* left and whether onComplete had been raised in the pass it found.  This one
\* is no seekTo.
NoSeeking == [t |-> None, from |-> None, completed |-> FALSE]

\* A call other than start, stop and tick has been made.
Disturbed == /\ pristine' = FALSE
             /\ fired' = <<>>
             /\ seenNow' = None

Disturb == /\ Disturbed
           /\ seeking' = NoSeeking

(* ------------------------- stop(), as a helper ------------------------ *)
\* A stop() that leaves the requested frame pending.
StopFramesKeep == frames

\* stop(): returns early when not running; otherwise cancels the pending frame
\* (cancelAnimationFrame of a handle whose frame has run cancels nothing).
StopFrames == IF running /\ frameHandle /\ frames > 0 THEN frames - 1 ELSE frames

StopHandle == IF running THEN FALSE ELSE frameHandle

(* ------------------------------ Init ---------------------------------- *)
\* new TimelineScheduler({audio, actions, callbacks}) on a fresh audio element,
\* beside a fresh ActionExecutor, its editor and its terminal attached or not.
InitWith(attached) ==
  /\ \E list \in ActionLists : actions = SortActions(list)
  /\ timelineActions = <<>>
  /\ timelineError = ""
  /\ editor = attached
  /\ terminal = attached
  /\ termDirty = FALSE
  /\ models = {}
  /\ cursor = 0
  /\ highlightDecorations = 0
  /\ highlightTimeout = 0
  /\ timers = {}
  /\ hlCount = 0
  /\ opCount = 0
  /\ created = {}
  /\ exec = NoExec
  /\ highlights = [h \in 1..MaxHighlights |-> NoHighlight]
  /\ shadow = NoDocument
  /\ pointer = 0
  /\ running = FALSE
  /\ completeEmitted = FALSE
  /\ frameHandle = FALSE
  /\ frames = 0
  /\ listening = TRUE
  /\ clock = 0
  /\ seekedPending = FALSE
  /\ audioPlaying = FALSE
  /\ status = "idle"
  /\ applied = <<>>
  /\ isBatch = FALSE
  /\ last = Other
  /\ pristine = TRUE
  /\ seeking = NoSeeking
  /\ fired = <<>>
  /\ seenNow = None
  /\ passRaised = 0
  /\ runRaised = 0
  /\ jumped = None
  /\ call = NoCall
  /\ buffers = [p \in Paths |-> <<>>]
  /\ openedPath = ""
  /\ typingState = NoTyping
  /\ typingInterval = FALSE
  /\ isPlaying = FALSE
  /\ typeCount = 0
  /\ mutation = NoMutation
  /\ anim = [i \in 1..MaxTypes |-> NoAnim]

\* The App once the editor and the terminal have mounted (handleEditorMount
\* and the terminal effect have attached them to the executor).
Init == InitWith(TRUE)

(* -------------------------- scheduler API ----------------------------- *)
SetActions(list) ==
  LET sorted == SortActions(list)
      rp == ResetPointer(sorted, clock)
  IN /\ actions' = sorted
     /\ pointer' = rp.pointer
     /\ completeEmitted' = rp.completeEmitted
     /\ UNCHANGED <<running, frameHandle, frames, listening>>
     /\ UNCHANGED audioVars
     /\ UNCHANGED appVars
     /\ last' = Other
     /\ call' = Call("setActions", list, <<>>, NoBefore)
     /\ UNCHANGED execVars
     /\ passRaised' = PassAfterMove(passRaised, rp.pointer, sorted)
     /\ runRaised' = RunAfterMove(runRaised, rp.pointer, sorted, clock)
     /\ jumped' = None
     /\ Disturb

\* A start() without the early return.
StartAlways ==
  /\ running' = TRUE
  /\ completeEmitted' = FALSE
  /\ frameHandle' = TRUE
  /\ frames' = frames + 1
  /\ runRaised' = 0
  /\ UNCHANGED <<actions, pointer, listening>>
  /\ UNCHANGED audioVars
  /\ UNCHANGED appVars
  /\ last' = Other
  /\ call' = Call("start", None, <<>>, Before)
  /\ UNCHANGED execVars
  /\ UNCHANGED <<passRaised, jumped>>
  /\ Keep

Start ==
  /\ IF running
     THEN UNCHANGED <<running, completeEmitted, frameHandle, frames, runRaised>>
     ELSE /\ running' = TRUE
          /\ completeEmitted' = FALSE
          /\ frameHandle' = TRUE
          /\ frames' = frames + 1
          /\ runRaised' = 0
  /\ UNCHANGED <<actions, pointer, listening>>
  /\ UNCHANGED audioVars
  /\ UNCHANGED appVars
  /\ last' = Other
  /\ call' = Call("start", None, <<>>, Before)
  /\ UNCHANGED execVars
  /\ UNCHANGED <<passRaised, jumped>>
  /\ Keep

Stop ==
  /\ running' = FALSE
  /\ frames' = StopFrames
  /\ frameHandle' = StopHandle
  /\ UNCHANGED <<actions, pointer, completeEmitted, listening>>
  /\ UNCHANGED audioVars
  /\ UNCHANGED appVars
  /\ last' = Other
  /\ call' = Call("stop", None, <<>>, Before)
  /\ UNCHANGED execVars
  /\ UNCHANGED <<passRaised, runRaised, jumped>>
  /\ Keep

Reset ==
  LET rp == ResetPointer(actions, clock)
  IN /\ running' = FALSE
     /\ frames' = StopFrames
     /\ frameHandle' = StopHandle
     /\ pointer' = rp.pointer
     /\ completeEmitted' = rp.completeEmitted
     /\ UNCHANGED <<actions, listening>>
     /\ UNCHANGED audioVars
     /\ UNCHANGED appVars
     /\ last' = Other
     /\ call' = Call("reset", None, <<<<"onReset", None>>>>, NoBefore)
     /\ UNCHANGED execVars
     /\ passRaised' = PassAfterMove(passRaised, rp.pointer, actions)
     /\ runRaised' = RunAfterMove(runRaised, rp.pointer, actions, clock)
     /\ jumped' = None
     /\ Disturb

\* seekTo(timeMs), timeMs finite; writing audio.currentTime queues a 'seeked' event.
SeekTo(timeMs) ==
  LET sp == SyncPointer(actions, timeMs)
  IN /\ clock' = timeMs
     /\ seekedPending' = TRUE
     /\ pointer' = sp.pointer
     /\ completeEmitted' = sp.completeEmitted
     /\ UNCHANGED <<actions, running, frameHandle, frames, listening>>
     /\ UNCHANGED audioPlaying
     /\ UNCHANGED appVars
     /\ last' = Other
     /\ call' = Call("seekTo", timeMs, <<<<"onSeek", timeMs>>>>, NoBefore)
     /\ UNCHANGED execVars
     /\ passRaised' = PassAfterMove(passRaised, sp.pointer, actions)
     /\ runRaised' = RunAfterMove(runRaised, sp.pointer, actions, timeMs)
     /\ jumped' = None
     /\ Disturbed
     /\ seeking' = [t |-> timeMs, from |-> sp.pointer, completed |-> (passRaised >= 1)]

Prime(timeMs) ==
  LET sp == SyncPointer(actions, timeMs)
  IN /\ pointer' = sp.pointer
     /\ completeEmitted' = sp.completeEmitted
     /\ UNCHANGED <<actions, running, frameHandle, frames, listening>>
     /\ UNCHANGED audioVars
     /\ UNCHANGED appVars
     /\ last' = Other
     /\ call' = Call("prime", timeMs, <<>>, NoBefore)
     /\ UNCHANGED execVars
     /\ passRaised' = PassAfterMove(passRaised, sp.pointer, actions)
     /\ runRaised' = RunAfterMove(runRaised, sp.pointer, actions, timeMs)
     /\ jumped' = None
     /\ Disturb

\* primeAfter(timeMs).  It completes a jump to the action at timeMs when the
\* caller has stopped the scheduler and has just set the clock to timeMs.
PrimeAfter(timeMs) ==
  LET sp == SyncPointerAfter(actions, timeMs)
  IN /\ pointer' = sp.pointer
     /\ completeEmitted' = sp.completeEmitted
     /\ UNCHANGED <<actions, running, frameHandle, frames, listening>>
     /\ UNCHANGED audioVars
     /\ UNCHANGED appVars
     /\ last' = Last("primeAfter", timeMs, None, None, <<>>, FALSE, None)
     /\ call' = Call("primeAfter", timeMs, <<>>, NoBefore)
     /\ UNCHANGED execVars
     /\ passRaised' = PassAfterMove(passRaised, sp.pointer, actions)
     /\ runRaised' = RunAfterMove(runRaised, sp.pointer, actions, timeMs)
     /\ jumped' = (IF /\ ~running /\ seekedPending /\ clock = timeMs
                      /\ \E i \in 1..Len(actions) : actions[i].timeMs = timeMs
                   THEN timeMs ELSE None)
     /\ Disturb

\* seekTo(v), v not a finite number: Number.isFinite(v) fails, nothing is done.
SeekToNonFinite(v) ==
  /\ UNCHANGED schedVars
  /\ UNCHANGED audioVars
  /\ UNCHANGED appVars
  /\ last' = Other
  /\ call' = Call("seekTo/nonFinite", v, <<>>, Before)
  /\ UNCHANGED execVars
  /\ UNCHANGED <<passRaised, runRaised, jumped>>
  /\ Keep

\* prime(v), v not a finite number.
PrimeNonFinite(v) ==
  LET sp == SyncPointerNonFinite(actions, v)
  IN /\ pointer' = sp.pointer
     /\ completeEmitted' = sp.completeEmitted
     /\ UNCHANGED <<actions, running, frameHandle, frames, listening>>
     /\ UNCHANGED audioVars
     /\ UNCHANGED appVars
     /\ last' = Other
     /\ call' = Call("prime/nonFinite", v, <<>>, Before)
     /\ UNCHANGED execVars
     /\ passRaised' = PassAfterMove(passRaised, sp.pointer, actions)
     /\ runRaised' = RunAfterMove(runRaised, sp.pointer, actions, IF v = "-Infinity" THEN 0 ELSE 1)
     /\ jumped' = None
     /\ Disturb

\* primeAfter(v), v not a finite number.
PrimeAfterNonFinite(v) ==
  LET sp == SyncPointerAfterNonFinite(actions, v)
  IN /\ pointer' = sp.pointer
     /\ completeEmitted' = sp.completeEmitted
     /\ UNCHANGED <<actions, running, frameHandle, frames, listening>>
     /\ UNCHANGED audioVars
     /\ UNCHANGED appVars
     /\ last' = Other
     /\ call' = Call("primeAfter/nonFinite", v, <<>>, Before)
     /\ UNCHANGED execVars
     /\ passRaised' = PassAfterMove(passRaised, sp.pointer, actions)
     /\ runRaised' = RunAfterMove(runRaised, sp.pointer, actions, IF v = "-Infinity" THEN 0 ELSE 1)
     /\ jumped' = None
     /\ Disturb

Dispose ==
  /\ running' = FALSE
  /\ frames' = StopFrames
  /\ frameHandle' = StopHandle
  /\ listening' = FALSE
  /\ actions' = <<>>
  /\ UNCHANGED <<pointer, completeEmitted>>
  /\ UNCHANGED audioVars
  /\ UNCHANGED appVars
  /\ last' = Other
  /\ call' = NoCall
  /\ UNCHANGED execVars
  /\ UNCHANGED <<passRaised, runRaised>>
  /\ jumped' = None
  /\ Disturb

(* ----------------------- callbacks and events ------------------------- *)
\* tick(), run by a pending animation frame: what it does to the scheduler.
TickCore ==
  /\ frames > 0
  /\ IF ~running
     THEN /\ frames' = frames - 1
          /\ UNCHANGED <<actions, pointer, running, completeEmitted, frameHandle, listening>>
          /\ last' = Other
          /\ call' = NoCall
          /\ UNCHANGED <<passRaised, runRaised, jumped>>
          /\ Keep
     ELSE LET nowMs == clock
              np == FireLoop(actions, pointer, nowMs)
              batch == FiredBatch(actions, pointer, np, nowMs)
              atEnd == np >= Len(actions)
              raise == atEnd /\ ~completeEmitted
          IN /\ pointer' = np
             /\ completeEmitted' = (IF atEnd THEN TRUE ELSE completeEmitted)
             /\ running' = ~atEnd
             /\ frameHandle' = ~atEnd
             /\ frames' = (IF atEnd THEN frames - 1 ELSE frames)
             /\ UNCHANGED <<actions, listening>>
             /\ last' = Last("tick", None, pointer, nowMs, batch, raise, runRaised)
             /\ call' = NoCall
             /\ passRaised' = (IF raise THEN Raise(passRaised) ELSE passRaised)
             /\ runRaised' = (IF raise THEN Raise(runRaised) ELSE runRaised)
             /\ UNCHANGED <<pristine, jumped, seeking>>
             /\ fired' = (IF pristine THEN fired \o batch ELSE fired)
             /\ seenNow' = (IF pristine \/ jumped # None THEN nowMs ELSE seenNow)
  /\ UNCHANGED audioVars

\* tick() of a scheduler whose callbacks only observe.
Tick ==
  /\ TickCore
  /\ UNCHANGED appVars
  /\ UNCHANGED execVars

\* handleSeek(): the audio element's 'seeked' event.
HandleSeek ==
  /\ listening
  /\ seekedPending
  /\ LET sp == SyncPointer(actions, clock)
     IN /\ pointer' = sp.pointer
        /\ completeEmitted' = sp.completeEmitted
        /\ passRaised' = PassAfterMove(passRaised, sp.pointer, actions)
        /\ runRaised' = RunAfterMove(runRaised, sp.pointer, actions, clock)
  /\ seekedPending' = FALSE
  /\ UNCHANGED <<actions, running, frameHandle, frames, listening>>
  /\ UNCHANGED <<clock, audioPlaying>>
  /\ UNCHANGED appVars
  /\ last' = Last("seeked", jumped, pointer, clock, <<>>, FALSE, None)
  /\ call' = Call("handleSeek", None, <<<<"onSeek", clock>>>>, NoBefore)
  /\ UNCHANGED execVars
  /\ jumped' = None
  /\ Disturb

\* handleEnded() that raises completion without looking at the flag.
HandleEndedAlways ==
  /\ listening
  /\ pointer' = Len(actions)
  /\ completeEmitted' = TRUE
  /\ running' = FALSE
  /\ frames' = StopFrames
  /\ frameHandle' = StopHandle
  /\ UNCHANGED <<actions, listening>>
  /\ UNCHANGED audioVars
  /\ UNCHANGED appVars
  /\ last' = Last("ended", None, None, None, <<>>, TRUE, runRaised)
  /\ call' = NoCall
  /\ UNCHANGED execVars
  /\ passRaised' = Raise(passRaised)
  /\ runRaised' = Raise(runRaised)
  /\ jumped' = None
  /\ Disturb

\* handleEnded(): the audio element's 'ended' event.
HandleEnded ==
  /\ listening
  /\ pointer' = Len(actions)
  /\ completeEmitted' = TRUE
  /\ running' = FALSE
  /\ frames' = StopFrames
  /\ frameHandle' = StopHandle
  /\ UNCHANGED <<actions, listening>>
  /\ UNCHANGED audioVars
  /\ UNCHANGED appVars
  /\ last' = Last("ended", None, None, None, <<>>, ~completeEmitted, runRaised)
  /\ call' = NoCall
  /\ UNCHANGED execVars
  /\ passRaised' = (IF ~completeEmitted THEN Raise(passRaised) ELSE passRaised)
  /\ runRaised' = (IF ~completeEmitted THEN Raise(runRaised) ELSE runRaised)
  /\ jumped' = None
  /\ Disturb

(* --------------------------- audio element ---------------------------- *)
\* Playback progress: the clock moves forward, no 'seeked' event.
AudioAdvance ==
  /\ \E t \in Times : t > clock /\ clock' = t
  /\ UNCHANGED <<seekedPending, audioPlaying>>
  /\ UNCHANGED schedVars
  /\ UNCHANGED appVars
  /\ last' = Other
  /\ call' = NoCall
  /\ UNCHANGED execVars
  /\ UNCHANGED <<passRaised, runRaised, jumped>>
  /\ Keep

\* audio.currentTime = t / 1000 by a holder of the element other than seekTo
\* (the App's jump and reset handlers, a transport control): a 'seeked' event follows.
AudioSetTime(t) ==
  /\ clock' = t
  /\ seekedPending' = TRUE
  /\ UNCHANGED audioPlaying
  /\ UNCHANGED schedVars
  /\ UNCHANGED appVars
  /\ last' = Other
  /\ call' = NoCall
  /\ UNCHANGED execVars
  /\ UNCHANGED <<passRaised, runRaised>>
  /\ jumped' = None
  /\ Disturb

(* ------------------------- the ActionExecutor ------------------------- *)
\* The text of the type action with id i is the characters <<i, 1>> ..
\* <<i, len>>; the content of a create_file action is characters <<0, k>>.
\* Texts are single lines, so a position is an offset into the text.

\* applyTypeAction: the characters per second of the animation, 0 for none.
Cps(rate, len) ==
  IF rate.charactersPerSecond # 0 THEN Max(1, rate.charactersPerSecond)
  ELSE IF rate.delayMs > 0 THEN Max(1, (len * 1000) \div rate.delayMs)
  ELSE 0

\* applyTypeAction takes the animated path whatever the mode.
AnimatedInBatch(batch, cps) == cps > 0

\* applyTypeAction: the batch branch returns first, then cps > 0 animates.
Animated(batch, cps) == ~batch /\ cps > 0

\* Math.max(1, Math.floor(16 / state.msPerChar)), msPerChar = 1000 / cps
ChunkSize(cps) == Max(1, (TypingTickMs * cps) \div 1000)

\* The end of a chunk taken without regard to the length of the text.
NextEndNoMin(st) == st.offsetChars + ChunkSize(st.cps)

\* Math.min(state.text.length, state.offsetChars + chunkSize)
NextEnd(st) == Min(st.len, st.offsetChars + ChunkSize(st.cps))

\* The animation tick never regards the executor as paused.
PausedNever(playing) == FALSE

\* if (!this.isPlaying) return
Paused(playing) == ~playing

\* text.slice(from, to) of the type action id
Chars(id, from, to) == [k \in 1..(to - from) |-> <<id, from + k>>]

\* The document the executor works on.
Doc == [buffers |-> buffers, models |-> models, openedPath |-> openedPath, cursor |-> cursor]

SetDoc(d) ==
  /\ buffers' = d.buffers
  /\ models' = d.models
  /\ openedPath' = d.openedPath
  /\ cursor' = d.cursor

\* An edit whose range is the empty range at offset off.
InsertAt(text, off, chars) ==
  SubSeq(text, 1, off) \o chars \o SubSeq(text, off + 1, Len(text))

\* getOrCreateModel(path, content): an existing model gets the content only if
\* the content is a non-empty string that differs from its text (setValue puts
\* the cursor of an editor showing the model at its start); a new model is
\* created with the content.
GetOrCreateModel(d, path, content) ==
  IF path \in d.models
  THEN IF content # <<>> /\ d.buffers[path] # content
       THEN [d EXCEPT !.buffers[path] = content,
                      !.cursor = IF d.openedPath = path THEN 0 ELSE @]
       ELSE d
  ELSE [d EXCEPT !.models = @ \cup {path}, !.buffers[path] = content]

\* editor.setModel(model) with fs.markOpened(path): a model other than the one
\* shown is shown with the cursor at its start.
SetModel(d, path) ==
  IF d.openedPath = path THEN d
  ELSE [d EXCEPT !.openedPath = path, !.cursor = 0]

\* fs.openFile(path), then the model is given to the editor.
OpenFile(d, path) == SetModel(GetOrCreateModel(d, path, <<>>), path)

\* fs.createFile(path, content), fs.openFile(path), openModel(model, path)
CreateFile(d, path, content) == OpenFile(GetOrCreateModel(d, path, content), path)

\* ensureFileOpen(path) that opens nothing.
EnsureFileOpenNever(d, path) == d

\* ensureFileOpen(path): the editor's model when path is the opened path,
\* otherwise the path is opened.
EnsureFileOpen(d, path) ==
  IF d.openedPath = path THEN d ELSE OpenFile(d, path)

\* The onFileOpened invocation of ensureFileOpen(path), if any.
EnsureEvents(d, path) ==
  IF d.openedPath = path THEN <<>> ELSE <<<<"onFileOpened", path>>>>

\* editor.setPosition(position): the position is brought into the text of the
\* editor's model; an editor without a model has no position to set.
SetPosition(d, off) ==
  IF d.openedPath \in d.models
  THEN [d EXCEPT !.cursor = Min(off, Len(d.buffers[d.openedPath]))]
  ELSE d

\* pushEditOperations of text.slice(from, to) on the model of path, its range
\* fullInsertRange(model): the empty range at the editor's position, brought
\* into the text of the model; then editor.setPosition(end of the model).
InsertText(d, path, id, from, to) ==
  LET text == d.buffers[path]
      new == InsertAt(text, Min(d.cursor, Len(text)), Chars(id, from, to))
  IN SetPosition([d EXCEPT !.buffers[path] = new], Len(new))

\* The characters of the type action id in the model of path, in model order;
\* none for the path of a type action not executed yet.
EmittedIn(bufs, id, path) ==
  IF path \in DOMAIN bufs THEN SelectSeq(bufs[path], LAMBDA c : c[1] = id) ELSE <<>>

\* The same characters, each once, whatever their order (t has no repetition).
SameChars(s, t) ==
  /\ Len(s) = Len(t)
  /\ \A k \in 1..Len(t) : \E n \in 1..Len(s) : s[n] = t[k]

\* What the step pushed, as one mutation.
Mutation(path, id, count) == [path |-> path, id |-> id, count |-> count]

\* The type action just executed, as remembered.
TypeRecord(path, len, rated, mode, over) ==
  [NoAnim EXCEPT !.path = path, !.len = len, !.rated = rated, !.mode = mode, !.over = over]

\* The animation st, if any, ends here: how, and by a type action on which path.
EndAnim(an, st, end, by) ==
  IF st = NoTyping THEN an
  ELSE [an EXCEPT ![st.id] = [@ EXCEPT !.end = end, !.at = st.offsetChars, !.by = by]]

\* Steps of the executor leave the scheduler, the audio element and the App alone.
ExecFrame ==
  /\ UNCHANGED schedVars
  /\ UNCHANGED audioVars
  /\ UNCHANGED <<status, applied, loadVars>>
  /\ UNCHANGED histVars
  /\ call' = NoCall

\* What the executor holds besides the document and the typing animation.
sinkVars == <<editor, terminal, termDirty>>
highlightVars == <<highlightDecorations, highlightTimeout, timers, hlCount, highlights>>
typingVars == <<typingState, typingInterval, isPlaying, typeCount, mutation, anim, isBatch>>

\* A call that ends in an exception before it has changed anything.
Throws(kind, path) ==
  /\ exec' = Exec(kind, path, None, <<>>, TRUE, Doc, created)
  /\ UNCHANGED <<buffers, models, openedPath, cursor, shadow, opCount, created>>
  /\ UNCHANGED sinkVars
  /\ UNCHANGED highlightVars
  /\ UNCHANGED typingVars
  /\ ExecFrame

\* attachEditor(editor, monaco), with fs.attach(monaco)
AttachEditor ==
  /\ ~editor
  /\ editor' = TRUE
  /\ exec' = NoExec
  /\ UNCHANGED <<terminal, termDirty>>
  /\ UNCHANGED <<buffers, models, openedPath, cursor, shadow, opCount, created>>
  /\ UNCHANGED highlightVars
  /\ UNCHANGED typingVars
  /\ ExecFrame

\* attachTerminal(terminal)
AttachTerminal ==
  /\ ~terminal
  /\ terminal' = TRUE
  /\ exec' = NoExec
  /\ UNCHANGED <<editor, termDirty>>
  /\ UNCHANGED <<buffers, models, openedPath, cursor, shadow, opCount, created>>
  /\ UNCHANGED highlightVars
  /\ UNCHANGED typingVars
  /\ ExecFrame

\* execute({kind: 'create_file', path, content}), content of len characters
\* (0 for an omitted or empty content).  Without Monaco attached
\* fs.createFile raises 'Monaco has not been attached yet.'.
ExecCreateFile(path, len) ==
  LET content == Chars(0, 0, len)
  IN /\ opCount < MaxDocOps
     /\ IF ~editor
        THEN Throws("create_file", path)
        ELSE /\ SetDoc(CreateFile(Doc, path, content))
             /\ shadow' = CreateFile(shadow, path, content)
             /\ exec' = Exec("create_file", path, len,
                             <<<<"onFileOpened", path>>, <<"onFileCreated", path>>>>,
                             FALSE, Doc, created)
             /\ created' = created \cup {path}
             /\ opCount' = opCount + 1
             /\ mutation' = NoMutation
             /\ UNCHANGED <<typingState, typingInterval, isPlaying, typeCount, anim, isBatch>>
             /\ UNCHANGED sinkVars
             /\ UNCHANGED highlightVars
             /\ ExecFrame

\* execute({kind: 'open_file', path})
ExecOpenFile(path) ==
  /\ opCount < MaxDocOps
  /\ IF ~editor
     THEN Throws("open_file", path)
     ELSE /\ SetDoc(OpenFile(Doc, path))
          /\ shadow' = OpenFile(shadow, path)
          /\ exec' = Exec("open_file", path, None, <<<<"onFileOpened", path>>>>, FALSE, Doc, created)
          /\ UNCHANGED created
          /\ opCount' = opCount + 1
          /\ mutation' = NoMutation
          /\ UNCHANGED <<typingState, typingInterval, isPlaying, typeCount, anim, isBatch>>
          /\ UNCHANGED sinkVars
          /\ UNCHANGED highlightVars
          /\ ExecFrame

\* execute({kind: 'move_cursor', path, line: 1, column: off + 1})
ExecMoveCursor(path, off) ==
  /\ opCount < MaxDocOps
  /\ IF ~editor
     THEN Throws("move_cursor", path)
     ELSE /\ SetDoc(SetPosition(EnsureFileOpen(Doc, path), off))
          /\ shadow' = SetPosition(EnsureFileOpen(shadow, path), off)
          /\ exec' = Exec("move_cursor", path, off, EnsureEvents(Doc, path), FALSE, Doc, created)
          /\ UNCHANGED created
          /\ opCount' = opCount + 1
          /\ mutation' = NoMutation
          /\ UNCHANGED <<typingState, typingInterval, isPlaying, typeCount, anim, isBatch>>
          /\ UNCHANGED sinkVars
          /\ UNCHANGED highlightVars
          /\ ExecFrame

\* An applyHighlight that leaves the pending removal timer alone.
ClearTimeoutNone(pending, handle) == pending

\* window.clearTimeout(handle): no effect for a null handle or a timer that has run.
ClearTimeout(pending, handle) == pending \ {handle}

\* execute({kind: 'highlight_range', path, range, durationMs})
ExecHighlight(path, durationMs) ==
  LET id == hlCount + 1
  IN /\ hlCount < MaxHighlights
     /\ IF ~editor
        THEN Throws("highlight_range", path)
        ELSE /\ SetDoc(EnsureFileOpen(Doc, path))
             /\ shadow' = EnsureFileOpen(shadow, path)
             /\ exec' = Exec("highlight_range", path, durationMs, EnsureEvents(Doc, path), FALSE, Doc, created)
             /\ hlCount' = id
             /\ highlightDecorations' = id
             /\ highlights' = [highlights EXCEPT ![id] = [NoHighlight EXCEPT !.durationMs = durationMs]]
             /\ IF durationMs # 0
                THEN /\ timers' = ClearTimeout(timers, highlightTimeout) \cup {id}
                     /\ highlightTimeout' = id
                ELSE /\ timers' = ClearTimeout(timers, highlightTimeout)
                     /\ UNCHANGED highlightTimeout
             /\ mutation' = NoMutation
             /\ UNCHANGED <<typingState, typingInterval, isPlaying, typeCount, anim, isBatch>>
             /\ UNCHANGED <<opCount, created>>
             /\ UNCHANGED sinkVars
             /\ ExecFrame

\* The callback of the timer set by the highlight h: the decorations shown are removed.
HighlightTimerFire(h) ==
  /\ h \in timers
  /\ timers' = timers \ {h}
  /\ IF editor
     THEN /\ highlightDecorations' = 0
          /\ highlights' = (IF highlightDecorations = 0 THEN highlights
                            ELSE [highlights EXCEPT ![highlightDecorations].removedBy = h])
     ELSE UNCHANGED <<highlightDecorations, highlights>>
  /\ exec' = NoExec
  /\ mutation' = NoMutation
  /\ UNCHANGED <<highlightTimeout, hlCount>>
  /\ UNCHANGED <<buffers, models, openedPath, cursor, shadow, opCount, created>>
  /\ UNCHANGED <<typingState, typingInterval, isPlaying, typeCount, anim, isBatch>>
  /\ UNCHANGED sinkVars
  /\ ExecFrame

\* execute of a terminal_run, terminal_output or clear_terminal action:
\* this.terminal?.runCommand / write / clear
ExecTerminal(kind) ==
  /\ opCount < MaxDocOps
  /\ opCount' = opCount + 1
  /\ termDirty' = (IF terminal THEN kind # "clear_terminal" ELSE termDirty)
  /\ exec' = Exec(kind, "", None, <<>>, FALSE, Doc, created)
  /\ mutation' = NoMutation
  /\ UNCHANGED <<editor, terminal>>
  /\ UNCHANGED <<buffers, models, openedPath, cursor, shadow, created>>
  /\ UNCHANGED <<typingState, typingInterval, isPlaying, typeCount, anim, isBatch>>
  /\ UNCHANGED highlightVars
  /\ ExecFrame

\* execute of an action whose kind is none of the eight: console.warn, nothing else.
ExecUnknown ==
  /\ opCount < MaxDocOps
  /\ opCount' = opCount + 1
  /\ exec' = Exec("unknown", "", None, <<>>, FALSE, Doc, created)
  /\ mutation' = NoMutation
  /\ UNCHANGED <<buffers, models, openedPath, cursor, shadow, created>>
  /\ UNCHANGED <<typingState, typingInterval, isPlaying, typeCount, anim, isBatch>>
  /\ UNCHANGED sinkVars
  /\ UNCHANGED highlightVars
  /\ ExecFrame

\* execute({kind: 'type', path, text, charactersPerSecond, delayMs}), text of len characters
ExecType(path, len, rate) ==
  LET id == typeCount + 1
      cps == Cps(rate, len)
      d == EnsureFileOpen(Doc, path)
  IN /\ typeCount < MaxTypes
     /\ IF ~editor
        THEN Throws("type", path)
        ELSE /\ typeCount' = id
             /\ exec' = Exec("type", path, len, EnsureEvents(Doc, path), FALSE, Doc, created)
             /\ shadow' = InsertText(EnsureFileOpen(shadow, path), path, id, 0, len)
             /\ IF Animated(isBatch, cps)
                THEN /\ typingState' = [path |-> path, id |-> id, len |-> len,
                                        offsetChars |-> 0, cps |-> cps]
                     /\ typingInterval' = TRUE
                     /\ anim' = [EndAnim(anim, typingState, "superseded", path) EXCEPT
                                   ![id] = TypeRecord(path, len, TRUE, "animated",
                                                      /\ typingState.path = path
                                                      /\ typingState.offsetChars < typingState.len)]
                     /\ SetDoc(d)
                     /\ mutation' = NoMutation
                ELSE /\ SetDoc(InsertText(d, path, id, 0, len))
                     /\ mutation' = Mutation(path, id, len)
                     /\ anim' = [anim EXCEPT
                                   ![id] = TypeRecord(path, len, cps > 0,
                                                      IF isBatch THEN "batch" ELSE "paste", FALSE)]
                     /\ UNCHANGED <<typingState, typingInterval>>
             /\ UNCHANGED <<isBatch, isPlaying, opCount, created>>
             /\ UNCHANGED sinkVars
             /\ UNCHANGED highlightVars
             /\ ExecFrame

\* The tick closure of startTyping, run by the interval timer.
TypingTick ==
  /\ typingInterval
  /\ IF typingState = NoTyping
     THEN UNCHANGED <<buffers, models, openedPath, cursor, typingState, typingInterval, anim, mutation>>
     ELSE IF Paused(isPlaying)
     THEN /\ anim' = [anim EXCEPT ![typingState.id].paused = typingState.offsetChars]
          /\ mutation' = NoMutation
          /\ UNCHANGED <<buffers, models, openedPath, cursor, typingState, typingInterval>>
     ELSE IF typingState.offsetChars >= typingState.len
     THEN /\ typingState' = NoTyping
          /\ typingInterval' = FALSE
          /\ anim' = EndAnim(anim, typingState, "completed", "")
          /\ mutation' = NoMutation
          /\ UNCHANGED <<buffers, models, openedPath, cursor>>
     ELSE LET nextEnd == NextEnd(typingState)
          IN /\ SetDoc(InsertText(Doc, typingState.path, typingState.id,
                                  typingState.offsetChars, nextEnd))
             /\ typingState' = [typingState EXCEPT !.offsetChars = nextEnd]
             /\ mutation' = Mutation(typingState.path, typingState.id,
                                     nextEnd - typingState.offsetChars)
             /\ anim' = [anim EXCEPT ![typingState.id].ticks = @ + 1]
             /\ UNCHANGED typingInterval
  /\ exec' = NoExec
  /\ UNCHANGED <<isPlaying, typeCount, isBatch, shadow, opCount, created>>
  /\ UNCHANGED sinkVars
  /\ UNCHANGED highlightVars
  /\ ExecFrame

\* A beginBatch() that sets the flag and leaves the typing animation running.
BeginBatchKeeps ==
  /\ isBatch' = TRUE
  /\ mutation' = NoMutation
  /\ exec' = NoExec
  /\ UNCHANGED <<typingState, typingInterval, anim>>
  /\ UNCHANGED <<buffers, models, openedPath, cursor, shadow, opCount, created, isPlaying, typeCount>>
  /\ UNCHANGED sinkVars
  /\ UNCHANGED highlightVars
  /\ ExecFrame

\* beginBatch(): this.isBatch = true; this.cancelTyping()
BeginBatch ==
  /\ isBatch' = TRUE
  /\ typingState' = NoTyping
  /\ typingInterval' = FALSE
  /\ anim' = EndAnim(anim, typingState, "cancelled", "")
  /\ mutation' = NoMutation
  /\ exec' = NoExec
  /\ UNCHANGED <<buffers, models, openedPath, cursor, shadow, opCount, created, isPlaying, typeCount>>
  /\ UNCHANGED sinkVars
  /\ UNCHANGED highlightVars
  /\ ExecFrame

EndBatch ==
  /\ isBatch' = FALSE
  /\ mutation' = NoMutation
  /\ exec' = NoExec
  /\ UNCHANGED <<buffers, models, openedPath, cursor, shadow, opCount, created>>
  /\ UNCHANGED <<typingState, typingInterval, isPlaying, typeCount, anim>>
  /\ UNCHANGED sinkVars
  /\ UNCHANGED highlightVars
  /\ ExecFrame

SetPlaying(playing) ==
  /\ isPlaying' = playing
  /\ mutation' = NoMutation
  /\ exec' = NoExec
  /\ UNCHANGED <<buffers, models, openedPath, cursor, shadow, opCount, created>>
  /\ UNCHANGED <<typingState, typingInterval, typeCount, anim, isBatch>>
  /\ UNCHANGED sinkVars
  /\ UNCHANGED highlightVars
  /\ ExecFrame

\* flushTypingNow(): the document it leaves.  The rest of the text is pushed
\* at the editor's position, if any is left; the editor's position is set to
\* the end of the animation's model.
FlushDocument(d, st) ==
  IF st = NoTyping THEN d
  ELSE IF st.offsetChars < st.len
  THEN InsertText(d, st.path, st.id, st.offsetChars, st.len)
  ELSE SetPosition(d, Len(d.buffers[st.path]))

\* flushTypingNow(): what it pushed
FlushMutation(st) ==
  IF st # NoTyping /\ st.offsetChars < st.len
  THEN Mutation(st.path, st.id, st.len - st.offsetChars)
  ELSE NoMutation

FlushTypingNow ==
  /\ SetDoc(FlushDocument(Doc, typingState))
  /\ mutation' = FlushMutation(typingState)
  /\ typingState' = NoTyping
  /\ typingInterval' = FALSE
  /\ anim' = EndAnim(anim, typingState, "flushed", "")
  /\ exec' = Exec("flushTypingNow", "", None, <<>>, FALSE, Doc, created)
  /\ UNCHANGED <<isPlaying, typeCount, isBatch, shadow, opCount, created>>
  /\ UNCHANGED sinkVars
  /\ UNCHANGED highlightVars
  /\ ExecFrame

(* ------------------------------ the App ------------------------------- *)
\* executor.reset() starts with this.fs.reset(), and VirtualFileSystem defines
\* no reset method: the call raises a TypeError before reset() has changed anything.
ExecutorResetThrows == TRUE

\* The batch loop of handleJumpToAction: execute every action, in list order,
\* until the first one scheduled after targetTime.
RECURSIVE ReplayUpTo(_, _, _)
ReplayUpTo(acts, i, targetTime) ==
  IF i > Len(acts) \/ acts[i].timeMs > targetTime THEN <<>>
  ELSE <<acts[i].id>> \o ReplayUpTo(acts, i + 1, targetTime)

\* tick() with the App's callbacks: onAction hands the action to
\* executor.execute, onComplete sets the status to 'complete'.
AppTick ==
  /\ TickCore
  /\ Len(applied) + Len(last'.batch) <= MaxApplied
  /\ applied' = applied \o [n \in 1..Len(last'.batch) |-> last'.batch[n].id]
  /\ status' = (IF last'.raised THEN "complete" ELSE status)
  /\ IF last'.raised
     THEN /\ isPlaying' = FALSE
          /\ SetDoc(FlushDocument(Doc, typingState))
          /\ mutation' = FlushMutation(typingState)
          /\ typingState' = NoTyping
          /\ typingInterval' = FALSE
          /\ anim' = EndAnim(anim, typingState, "flushed", "")
     ELSE UNCHANGED <<isPlaying, buffers, models, openedPath, cursor, mutation,
                      typingState, typingInterval, anim>>
  /\ exec' = NoExec
  /\ UNCHANGED <<typeCount, shadow, opCount, created>>
  /\ UNCHANGED sinkVars
  /\ UNCHANGED highlightVars
  /\ UNCHANGED isBatch
  /\ UNCHANGED loadVars

\* handleTogglePlay, the assets and the editor being ready.
AppTogglePlay ==
  /\ IF status = "running"
     THEN /\ audioPlaying' = FALSE
          /\ running' = FALSE
          /\ frames' = StopFrames
          /\ frameHandle' = StopHandle
          /\ UNCHANGED <<completeEmitted, runRaised>>
          /\ status' = "paused"
     ELSE /\ audioPlaying' = TRUE
          /\ IF running
             THEN UNCHANGED <<running, completeEmitted, frameHandle, frames, runRaised>>
             ELSE /\ running' = TRUE
                  /\ completeEmitted' = FALSE
                  /\ frameHandle' = TRUE
                  /\ frames' = frames + 1
                  /\ runRaised' = 0
          /\ status' = "running"
  /\ UNCHANGED <<actions, pointer, listening>>
  /\ UNCHANGED <<clock, seekedPending>>
  /\ UNCHANGED <<applied, isBatch>>
  /\ UNCHANGED loadVars
  /\ isPlaying' = (status # "running")
  /\ UNCHANGED <<buffers, openedPath, typingState, typingInterval, typeCount, mutation, anim>>
  /\ UNCHANGED docVars
  /\ last' = Other
  /\ call' = NoCall
  /\ UNCHANGED <<passRaised, jumped>>
  /\ Keep

\* handleJumpToAction(target), target the i-th action of scheduler.getActions().
AppJump(i) ==
  LET targetTime == actions[i].timeMs
      sp == SyncPointerAfter(actions, targetTime)
  IN /\ running' = FALSE
     /\ frames' = StopFrames
     /\ frameHandle' = StopHandle
     /\ audioPlaying' = FALSE
     /\ IF ExecutorResetThrows
        THEN /\ UNCHANGED <<pointer, completeEmitted, clock, seekedPending>>
             /\ UNCHANGED <<status, applied, isBatch>>
             /\ UNCHANGED <<passRaised, runRaised>>
             /\ UNCHANGED execVars
        ELSE /\ applied' = ReplayUpTo(actions, 1, targetTime)
             /\ clock' = targetTime
             /\ seekedPending' = TRUE
             /\ isBatch' = FALSE
             /\ pointer' = sp.pointer
             /\ completeEmitted' = sp.completeEmitted
             /\ status' = "paused"
             /\ passRaised' = PassAfterMove(passRaised, sp.pointer, actions)
             /\ runRaised' = RunAfterMove(runRaised, sp.pointer, actions, targetTime)
             /\ buffers' = [p \in Paths |-> <<>>]
             /\ openedPath' = ""
             /\ typingState' = NoTyping
             /\ typingInterval' = FALSE
             /\ anim' = EndAnim(anim, typingState, "cancelled", "")
             /\ mutation' = NoMutation
             /\ UNCHANGED <<isPlaying, typeCount>>
             /\ models' = {}
             /\ cursor' = 0
             /\ UNCHANGED <<shadow, opCount, created, exec>>
             /\ UNCHANGED sinkVars
             /\ UNCHANGED highlightVars
     /\ UNCHANGED <<actions, listening>>
     /\ UNCHANGED loadVars
     /\ last' = Last("jump", targetTime, None, None, <<>>, FALSE, None)
     /\ call' = NoCall
     /\ jumped' = targetTime
     /\ Disturb

\* handleReset: the audio is rewound, the scheduler reset, then the executor.
AppReset ==
  LET rp == ResetPointer(actions, 0)
  IN /\ audioPlaying' = FALSE
     /\ clock' = 0
     /\ seekedPending' = TRUE
     /\ running' = FALSE
     /\ frames' = StopFrames
     /\ frameHandle' = StopHandle
     /\ pointer' = rp.pointer
     /\ completeEmitted' = rp.completeEmitted
     /\ IF ExecutorResetThrows
        THEN /\ UNCHANGED <<status, applied>>
             /\ UNCHANGED execVars
        ELSE /\ applied' = <<>>
             /\ status' = "idle"
             /\ buffers' = [p \in Paths |-> <<>>]
             /\ openedPath' = ""
             /\ typingState' = NoTyping
             /\ typingInterval' = FALSE
             /\ anim' = EndAnim(anim, typingState, "cancelled", "")
             /\ mutation' = NoMutation
             /\ isPlaying' = FALSE
             /\ UNCHANGED typeCount
             /\ models' = {}
             /\ cursor' = 0
             /\ UNCHANGED <<shadow, opCount, created, exec>>
             /\ UNCHANGED sinkVars
             /\ UNCHANGED highlightVars
     /\ UNCHANGED isBatch
     /\ UNCHANGED loadVars
     /\ UNCHANGED <<actions, listening>>
     /\ last' = Other
     /\ call' = NoCall
     /\ passRaised' = PassAfterMove(passRaised, rp.pointer, actions)
     /\ runRaised' = RunAfterMove(runRaised, rp.pointer, actions, 0)
     /\ jumped' = None
     /\ Disturb

\* The effects that follow a change of timelineActions to list: the scheduler
\* effect's cleanup disposes the scheduler in use, the load effect resets the
\* executor, rewinds the audio, and the scheduler effect constructs a scheduler
\* for the new list.  executor.reset() raising, the load effect ends at its first
\* statement and the effects after it in the component are not run.
LoadEffects(list) ==
  LET sorted == SortActions(list)
      rp == ResetPointer(sorted, 0)
  IN /\ running' = FALSE
     /\ frames' = StopFrames
     /\ frameHandle' = StopHandle
     /\ IF ExecutorResetThrows
        THEN /\ listening' = FALSE
             /\ actions' = <<>>
             /\ UNCHANGED <<pointer, completeEmitted>>
             /\ UNCHANGED audioVars
             /\ UNCHANGED <<status, applied, isBatch>>
             /\ UNCHANGED execVars
             /\ UNCHANGED <<passRaised, runRaised>>
        ELSE /\ listening' = TRUE
             /\ actions' = sorted
             /\ pointer' = rp.pointer
             /\ completeEmitted' = rp.completeEmitted
             /\ clock' = 0
             /\ seekedPending' = TRUE
             /\ audioPlaying' = FALSE
             /\ status' = "idle"
             /\ applied' = <<>>
             /\ UNCHANGED isBatch
             /\ buffers' = [p \in Paths |-> <<>>]
             /\ openedPath' = ""
             /\ typingState' = NoTyping
             /\ typingInterval' = FALSE
             /\ anim' = EndAnim(anim, typingState, "cancelled", "")
             /\ mutation' = NoMutation
             /\ UNCHANGED <<isPlaying, typeCount>>
             /\ models' = {}
             /\ cursor' = 0
             /\ UNCHANGED <<shadow, opCount, created, exec>>
             /\ UNCHANGED sinkVars
             /\ UNCHANGED highlightVars
             /\ passRaised' = 0
             /\ runRaised' = 0
     /\ last' = Other
     /\ jumped' = None
     /\ Disturb

\* A new timeline reaches the App: setTimelineError(null) and
\* setTimelineActions(list) of fetchShowFromUrl or handleTimelineFileSelection,
\* then the effects.
AppLoadTimeline(list) ==
  /\ timelineActions' = list
  /\ timelineError' = ""
  /\ LoadEffects(list)
  /\ call' = Call("loadTimeline", list, <<>>, NoBefore)

\* fetchShowFromUrl(url) when the response is not ok, cannot be read as JSON or
\* has no actions array: the error is kept and FALLBACK_TIMELINE becomes the
\* timeline (no effect runs when it already is).
FetchShowFails(reason) ==
  /\ timelineError' = reason
  /\ timelineActions' = FallbackTimeline
  /\ IF timelineActions = FallbackTimeline
     THEN /\ UNCHANGED schedVars
          /\ UNCHANGED audioVars
          /\ UNCHANGED <<status, applied, isBatch>>
          /\ UNCHANGED execVars
          /\ UNCHANGED <<passRaised, runRaised, jumped>>
          /\ last' = Other
          /\ Keep
     ELSE LoadEffects(FallbackTimeline)
  /\ call' = Call("fetchShowFromUrl/failed", None, <<>>, NoBefore)

\* handleTimelineFileSelection when the file cannot be read or parsed or has no
\* actions array: the error is kept, the timeline is left as it is.
TimelineFileFails(reason) ==
  /\ timelineError' = reason
  /\ UNCHANGED timelineActions
  /\ UNCHANGED schedVars
  /\ UNCHANGED audioVars
  /\ UNCHANGED <<status, applied, isBatch>>
  /\ UNCHANGED execVars
  /\ UNCHANGED <<passRaised, runRaised, jumped>>
  /\ last' = Other
  /\ Keep
  /\ call' = Call("handleTimelineFileSelection/failed", None, <<>>, NoBefore)

\* The onComplete callback the App gives the scheduler.
OnComplete ==
  /\ status' = "complete"
  /\ isPlaying' = FALSE
  /\ SetDoc(FlushDocument(Doc, typingState))
  /\ mutation' = FlushMutation(typingState)
  /\ typingState' = NoTyping
  /\ typingInterval' = FALSE
  /\ anim' = EndAnim(anim, typingState, "flushed", "")
  /\ exec' = Exec("onComplete", "", None, <<>>, FALSE, Doc, created)
  /\ UNCHANGED <<typeCount, isBatch, shadow, opCount, created>>
  /\ UNCHANGED sinkVars
  /\ UNCHANGED highlightVars
  /\ UNCHANGED schedVars
  /\ UNCHANGED audioVars
  /\ UNCHANGED <<applied, loadVars>>
  /\ UNCHANGED histVars
  /\ call' = NoCall

\* executor.reset()
ExecutorReset ==
  /\ opCount < MaxDocOps
  /\ IF ExecutorResetThrows
     THEN Throws("reset", "")
     ELSE /\ SetDoc(NoDocument)
          /\ shadow' = NoDocument
          /\ timers' = ClearTimeout(timers, highlightTimeout)
          /\ highlightTimeout' = 0
          /\ highlightDecorations' = 0
          /\ termDirty' = (IF terminal THEN FALSE ELSE termDirty)
          /\ typingState' = NoTyping
          /\ typingInterval' = FALSE
          /\ anim' = EndAnim(anim, typingState, "cancelled", "")
          /\ mutation' = NoMutation
          /\ exec' = Exec("reset", "", None, <<<<"onFileOpened", "">>>>, FALSE, Doc, created)
          /\ opCount' = opCount + 1
          /\ UNCHANGED <<isPlaying, typeCount, isBatch, hlCount, highlights>>
          /\ created' = {}
          /\ UNCHANGED <<editor, terminal>>
          /\ ExecFrame

\* tick() of a running scheduler whose onAction callback raises an exception
\* on its k-th invocation of this tick: the exception leaves the loop before
\* this.pointer += 1, and neither the completion check nor scheduleNextFrame()
\* is reached.  The frame that ran the tick is spent; this.frameHandle keeps it.
TickOnActionThrows(k) ==
  LET nowMs == clock
      np == FireLoop(actions, pointer, nowMs)
  IN /\ frames > 0
     /\ running
     /\ k >= 1
     /\ pointer + k <= np
     /\ pointer' = pointer + k - 1
     /\ frames' = frames - 1
     /\ UNCHANGED <<actions, running, completeEmitted, frameHandle, listening>>
     /\ UNCHANGED audioVars
     /\ UNCHANGED appVars
     /\ UNCHANGED execVars
     /\ last' = Last("tick/threw", None, pointer, nowMs,
                     FiredBatch(actions, pointer, pointer + k, nowMs), FALSE, runRaised)
     /\ call' = NoCall
     /\ UNCHANGED <<passRaised, runRaised>>
     /\ jumped' = None
     /\ Disturb

(* -------------------------- specifications ---------------------------- *)
\* The scheduler behind its whole public interface and both audio events.  A
\* disposed scheduler gets no further call (App.tsx drops its only reference).
Next ==
  \/ \E list \in ActionLists : listening /\ SetActions(list)
  \/ listening /\ Start
  \/ listening /\ Stop
  \/ listening /\ Reset
  \/ \E t \in Times : listening /\ SeekTo(t)
  \/ \E t \in Times : listening /\ Prime(t)
  \/ \E t \in Times : listening /\ PrimeAfter(t)
  \/ listening /\ Dispose
  \/ Tick
  \/ HandleSeek
  \/ HandleEnded
  \/ listening /\ AudioAdvance
  \/ \E t \in Times : listening /\ AudioSetTime(t)

Spec == Init /\ [][Next]_vars

\* Uninterrupted playback: start/stop pauses, ticks and the clock moving forward.
NextPlay ==
  \/ Start
  \/ Stop
  \/ Tick
  \/ AudioAdvance

SpecPlay == Init /\ [][NextPlay]_vars

\* A run that is not paused: start(), then the animation frames requested by
\* scheduleNextFrame() are delivered and the playing audio element's clock
\* moves forward, up to the latest time a timeline holds.
NextRun ==
  \/ Start
  \/ Tick
  \/ AudioAdvance

SpecRun == Init /\ [][NextRun]_vars /\ WF_vars(Tick) /\ WF_vars(AudioAdvance)

\* The App: its handlers around the scheduler and the executor.  The media is
\* longer than the clock range explored, so no 'ended' event is delivered.
NextApp ==
  \/ AppTogglePlay
  \/ \E i \in 1..Len(actions) : AppJump(i)
  \/ AppReset
  \/ AppTick
  \/ HandleSeek
  \/ audioPlaying /\ AudioAdvance

SpecApp == Init /\ [][NextApp]_vars

\* The transport of one loaded timeline: start, stop, reset, seekTo, ticks,
\* the clock moving forward and both events of the audio element.
NextTransport ==
  \/ Start
  \/ Stop
  \/ Reset
  \/ \E t \in Times : SeekTo(t)
  \/ Tick
  \/ HandleSeek
  \/ HandleEnded
  \/ AudioAdvance

SpecTransport == Init /\ [][NextTransport]_vars

\* Time arguments of every kind: playback with seekTo on finite times and
\* seekTo, prime and primeAfter on times that are not finite numbers.
NextArgs ==
  \/ Start
  \/ Stop
  \/ Tick
  \/ AudioAdvance
  \/ \E t \in Times : SeekTo(t)
  \/ \E v \in NonFinite : SeekToNonFinite(v)
  \/ \E v \in NonFinite : PrimeNonFinite(v)
  \/ \E v \in NonFinite : PrimeAfterNonFinite(v)

SpecArgs == Init /\ [][NextArgs]_vars

\* Loading: setActions on the scheduler in use and a new timeline reaching the
\* App, between the App's play/pause handler and its ticks.  Once the scheduler
\* is disposed and none replaces it, the handlers return at once.
NextLoad ==
  \/ \E list \in ActionLists : listening /\ SetActions(list)
  \/ \E list \in ActionLists : listening /\ AppLoadTimeline(list)
  \/ listening /\ AppTogglePlay
  \/ AppTick
  \/ listening /\ audioPlaying /\ AudioAdvance

SpecLoad == Init /\ [][NextLoad]_vars

\* The executor on its own: type actions, the animation timer, batch mode,
\* the play gate and the flush.
NextType ==
  \/ \E path \in Paths, len \in 1..MaxText, rate \in Rates : ExecType(path, len, rate)
  \/ TypingTick
  \/ BeginBatch
  \/ EndBatch
  \/ \E playing \in BOOLEAN : SetPlaying(playing)
  \/ FlushTypingNow

\* new ActionExecutor(), its editor attached, beside the scheduler of the
\* App's initial empty timeline.
InitType == Init /\ actions = <<>>

SpecType == InitType /\ [][NextType]_vars

\* The same, the interval timer firing again and again: a tick that can move
\* the animation on is eventually run.
SpecTypeLive == InitType /\ [][NextType]_vars /\ WF_vars(TypingTick)

\* Typing animations of every rate while the player plays: the interval
\* timer ticks, the App pauses and resumes.
NextRate ==
  \/ \E path \in Paths, len \in 1..MaxText, rate \in RateRange : ExecType(path, len, rate)
  \/ TypingTick
  \/ \E playing \in BOOLEAN : SetPlaying(playing)

SpecRate == InitType /\ [][NextRate]_vars

\* Number of calls the executor has been given.
Calls == typeCount + hlCount + opCount

\* The executor from its construction: the editor and the terminal are
\* attached at some point, actions of every kind are executed before and after
\* (type actions without a typing rate), highlight timers run, reset() is called.
NextDoc ==
  \/ AttachEditor
  \/ AttachTerminal
  \/ Calls < MaxDocOps /\ \E path \in Paths, len \in 0..MaxText : ExecCreateFile(path, len)
  \/ Calls < MaxDocOps /\ \E path \in Paths : ExecOpenFile(path)
  \/ Calls < MaxDocOps /\ \E path \in Paths, off \in 0..MaxText : ExecMoveCursor(path, off)
  \/ Calls < MaxDocOps /\ \E path \in Paths, durationMs \in Durations : ExecHighlight(path, durationMs)
  \/ \E h \in 1..MaxHighlights : HighlightTimerFire(h)
  \/ Calls < MaxDocOps /\ \E kind \in TerminalKinds : ExecTerminal(kind)
  \/ Calls < MaxDocOps /\ ExecUnknown
  \/ Calls < MaxDocOps /\ \E path \in Paths, len \in 1..MaxText :
                            ExecType(path, len, [charactersPerSecond |-> 0, delayMs |-> 0])
  \/ ExecutorReset

\* new ActionExecutor(), nothing attached yet.
InitDoc == InitWith(FALSE) /\ actions = <<>>

SpecDoc == InitDoc /\ [][NextDoc]_vars

\* Highlights on the attached executor: highlight_range actions, the removal
\* timers, files opened in between, reset().
NextHighlight ==
  \/ \E path \in Paths, durationMs \in Durations : ExecHighlight(path, durationMs)
  \/ \E h \in 1..MaxHighlights : HighlightTimerFire(h)
  \/ \E path \in Paths : ExecOpenFile(path)
  \/ ExecutorReset

InitLive == Init /\ actions = <<>>

SpecHighlight == InitLive /\ [][NextHighlight]_vars

\* The executor's two kinds of timer together: typing animations and their
\* interval ticks, highlights and their removal timers, around beginBatch(),
\* endBatch(), setPlaying() and reset().
NextTimers ==
  \/ Calls < MaxDocOps
       /\ \E path \in Paths, len \in 1..MaxText, rate \in Rates : ExecType(path, len, rate)
  \/ Calls < MaxDocOps
       /\ \E path \in Paths, durationMs \in Durations : ExecHighlight(path, durationMs)
  \/ TypingTick
  \/ \E h \in 1..MaxHighlights : HighlightTimerFire(h)
  \/ \E playing \in BOOLEAN : SetPlaying(playing)
  \/ BeginBatch
  \/ EndBatch
  \/ ExecutorReset

SpecTimers == InitLive /\ [][NextTimers]_vars

\* One live run of a timeline through the executor: the actions are executed
\* in order while the typing animation ticks, the App pauses and resumes, and
\* the run ends with the scheduler's onComplete.
NextLive ==
  \/ status # "complete" /\ Calls < MaxDocOps
       /\ \E path \in Paths, len \in 1..MaxText, rate \in Rates : ExecType(path, len, rate)
  \/ status # "complete" /\ Calls < MaxDocOps
       /\ \E path \in Paths, len \in 0..MaxText : ExecCreateFile(path, len)
  \/ status # "complete" /\ Calls < MaxDocOps /\ \E path \in Paths : ExecOpenFile(path)
  \/ status # "complete" /\ Calls < MaxDocOps
       /\ \E path \in Paths, off \in 0..MaxText : ExecMoveCursor(path, off)
  \/ status # "complete" /\ TypingTick
  \/ status # "complete" /\ \E playing \in BOOLEAN : SetPlaying(playing)
  \/ status # "complete" /\ OnComplete

SpecLive == InitLive /\ [][NextLive]_vars

\* A run of type actions to its completion: the animation ticks, the App
\* pauses and resumes, flushTypingNow is called, and onComplete ends the run.
NextFlush ==
  \/ status # "complete"
       /\ \E path \in Paths, len \in 1..MaxText, rate \in Rates : ExecType(path, len, rate)
  \/ status # "complete" /\ TypingTick
  \/ status # "complete" /\ \E playing \in BOOLEAN : SetPlaying(playing)
  \/ status # "complete" /\ FlushTypingNow
  \/ status # "complete" /\ OnComplete

SpecFlush == InitLive /\ [][NextFlush]_vars

\* Ticks whose onAction callback may raise an exception, between start(),
\* stop() and the clock moving forward.
NextFault ==
  \/ Start
  \/ Stop
  \/ Tick
  \/ \E k \in 1..MaxActions : TickOnActionThrows(k)
  \/ AudioAdvance

SpecFault == Init /\ [][NextFault]_vars

\* Loading timelines, from a URL and from a file, with and without success,
\* between the App's play/pause handler and its ticks.
NextImport ==
  \/ \E list \in ActionLists : AppLoadTimeline(list)
  \/ \E reason \in LoadFailures : FetchShowFails(reason)
  \/ \E reason \in LoadFailures : TimelineFileFails(reason)
  \/ listening /\ AppTogglePlay
  \/ AppTick
  \/ listening /\ audioPlaying /\ AudioAdvance

\* The App as it mounts: no timeline yet.
InitImport == Init /\ actions = <<>>

SpecImport == InitImport /\ [][NextImport]_vars

TypeOK ==
  /\ pointer \in Nat
  /\ running \in BOOLEAN
  /\ completeEmitted \in BOOLEAN
  /\ frames \in 0..1
  /\ frameHandle = (frames = 1)
  /\ clock \in Times
  /\ passRaised \in 0..2
  /\ runRaised \in 0..2

(* ------------------------------ claims -------------------------------- *)
\* C1 Exactly-once firing: while only ticks, start/stop pauses and forward
\* clock progress have happened since construction at pointer 0, onAction has
\* been invoked exactly once for every action with timeMs - toleranceMs at or
\* below the latest clock reading a tick has seen, never for any other action,
\* and the scheduledTimeMs values it saw are non-decreasing.
ExactlyOnceFiring ==
  pristine =>
    /\ \A i \in 1..Len(actions) :
         Cardinality({n \in 1..Len(fired) : fired[n].id = actions[i].id})
           = (IF seenNow # None /\ actions[i].timeMs - ToleranceMs <= seenNow THEN 1 ELSE 0)
    /\ \A n \in 1..(Len(fired) - 1) :
         fired[n].scheduledTimeMs <= fired[n + 1].scheduledTimeMs

\* Two actions with different times fired by two different ticks of one playback.
ExactlyOnceWitness ==
  /\ pristine
  /\ Len(fired) = 2
  /\ fired[1].scheduledTimeMs < fired[2].scheduledTimeMs
  /\ fired[1].actualTimeMs < fired[2].actualTimeMs

\* C2 Catch-up: a tick of a running scheduler that finds, from the pointer on,
\* k actions with timeMs at or below its clock reading fires all k inside that
\* tick, in list order, each with driftMs = now - timeMs >= 0.
CatchUpInOneTick ==
  last.op = "tick" =>
    LET k == Cardinality({i \in (last.from + 1)..Len(actions) : actions[i].timeMs <= last.now})
    IN /\ Len(last.batch) >= k
       /\ \A n \in 1..k :
            /\ last.batch[n].id = actions[last.from + n].id
            /\ last.batch[n].scheduledTimeMs = actions[last.from + n].timeMs
            /\ last.batch[n].driftMs = last.now - actions[last.from + n].timeMs
            /\ last.batch[n].driftMs >= 0

\* One tick that fired two actions that had fallen behind by different amounts.
CatchUpWitness ==
  /\ last.op = "tick"
  /\ Len(last.batch) >= 2
  /\ last.batch[1].driftMs > last.batch[2].driftMs
  /\ last.batch[2].driftMs > 0

\* C3 Seek idempotence: once handleJumpToAction has run for a target at time T,
\* and through the ticks that follow, the executor has applied the actions of
\* continuous play up to x = the later of T and the latest tick reading: every
\* action with timeMs <= x, none that is not yet due at x, each once, in list order.
SeekIdempotent ==
  jumped # None =>
    LET x == Max(jumped, seenNow)
    IN /\ Len(applied) >= CountLE(actions, x)
       /\ Len(applied) <= CountDue(actions, x)
       /\ \A n \in 1..Len(applied) : n <= Len(actions) /\ applied[n] = actions[n].id

\* C4 After primeAfter(T), T >= 0, the pointer equals the number of loaded
\* actions with timeMs <= T + toleranceMs.
PrimeAfterSkipsCovered ==
  last.op = "primeAfter" =>
    pointer = CountLE(actions, last.t + ToleranceMs)

\* C5 After a jump to T (scheduler stopped, clock set to T, primeAfter(T)) has
\* left the pointer past every action with timeMs <= T, the delivery of the
\* clock's 'seeked' event leaves it past every one of them.
SeekedKeepsJump ==
  (last.op = "seeked" /\ last.t # None /\ last.from >= CountLE(actions, last.t)) =>
    pointer >= CountLE(actions, last.t)

\* C6 (as claimed) onComplete is not invoked a second time unless a seekTo, a
\* clock jump, reset, prime, primeAfter or setActions has put the pointer back
\* below the action count since the previous invocation.
CompleteOncePerPass == passRaised <= 1

\* C6 (amended) onComplete is not invoked a second time unless, since the
\* previous invocation, start() was called on a stopped scheduler or a seekTo,
\* a clock jump, reset, prime, primeAfter or setActions put the pointer below
\* the action count (on an empty timeline: repositioned it for a time <= 0).
CompleteOncePerRun == runRaised <= 1

\* start() on an exhausted timeline, then a tick that raised completion again.
CompleteAgainWitness ==
  /\ last.op = "tick"
  /\ last.raised
  /\ passRaised = 2
  /\ runRaised = 1
  /\ Len(actions) > 0

\* C7 A tick of a running scheduler that finds the pointer at the end of the
\* action list raises onComplete and stops polling.
TickAtEndCompletes ==
  (last.op = "tick" /\ pointer >= Len(actions)) =>
    (last.raised /\ ~running /\ ~frameHandle)

\* C8 On the 'ended' event the pointer is the action count, polling has
\* stopped, and onComplete was raised exactly when completion had not been
\* raised before in this pass.
EndedCompletesOnce ==
  last.op = "ended" =>
    /\ pointer = Len(actions)
    /\ ~running
    /\ ~frameHandle
    /\ (last.raised <=> (last.before = 0))

\* C9 0 <= pointer <= number of loaded actions, in every reachable state.
PointerInRange == 0 <= pointer /\ pointer <= Len(actions)

\* C10 Tie-break stability: the loaded list is ascending in timeMs with equal
\* times in the caller's order, and any tick fires two actions that share a
\* timeMs both or neither, the earlier of the caller's list first.
TieBreakStable ==
  /\ \A i, j \in 1..Len(actions) :
       i < j => /\ actions[i].timeMs <= actions[j].timeMs
                /\ (actions[i].timeMs = actions[j].timeMs => actions[i].id < actions[j].id)
  /\ last.op = "tick" =>
       /\ \A i, j \in 1..Len(actions) :
            actions[i].timeMs = actions[j].timeMs =>
              ((last.from < i /\ i <= pointer) <=> (last.from < j /\ j <= pointer))
       /\ \A m, n \in 1..Len(last.batch) :
            (m < n /\ last.batch[m].scheduledTimeMs = last.batch[n].scheduledTimeMs)
              => last.batch[m].id < last.batch[n].id

\* A list given with two actions at the same time, both fired by one tick that
\* came after a tick that fired nothing.
TieBreakWitness ==
  /\ last.op = "tick"
  /\ Len(last.batch) = 2
  /\ last.batch[1].scheduledTimeMs = last.batch[2].scheduledTimeMs
  /\ last.batch[1].id = 1
  /\ last.batch[1].driftMs > 0

\* C11 seekTo(T), T finite: the clock reads T, the pointer is the smallest
\* index whose action has timeMs >= T - toleranceMs (every action before it is
\* scheduled below T - toleranceMs; index 0 when T <= 0), onSeek was notified
\* once, with T, and the call fired no action.
SeekToRepositions ==
  call.op = "seekTo" =>
    /\ clock = call.arg
    /\ pointer = (IF call.arg <= 0 THEN 0 ELSE CountBelow(actions, call.arg - ToleranceMs))
    /\ \A i \in 1..pointer : actions[i].timeMs < call.arg - ToleranceMs
    /\ pointer < Len(actions) => actions[pointer + 1].timeMs >= call.arg - ToleranceMs
    /\ call.notified = <<<<"onSeek", call.arg>>>>
    /\ last.batch = <<>>

\* A seekTo that landed between two actions, the next one scheduled before T
\* but within the tolerance.
SeekToWitness ==
  /\ call.op = "seekTo"
  /\ 0 < pointer
  /\ pointer < Len(actions)
  /\ actions[pointer + 1].timeMs < call.arg

\* C12 seekTo, prime and primeAfter given NaN, +Infinity or -Infinity leave the
\* clock, the pointer, the completion flag and the running state as they found
\* them and notify no observer.
NonFiniteRejected ==
  call.op \in {"seekTo/nonFinite", "prime/nonFinite", "primeAfter/nonFinite"} =>
    /\ clock = call.before.clock
    /\ pointer = call.before.pointer
    /\ completeEmitted = call.before.completeEmitted
    /\ running = call.before.running
    /\ call.notified = <<>>

\* C13 stop() leaves the scheduler not running with no frame callback pending,
\* the pointer where it was, and changes nothing when the scheduler was already
\* stopped; while the scheduler is stopped no frame callback is pending, so no
\* tick fires an action or reschedules itself before the next start().
StopHaltsPolling ==
  /\ ~running => (frames = 0 /\ ~frameHandle)
  /\ call.op = "stop" =>
       /\ ~running
       /\ pointer = call.before.pointer
       /\ completeEmitted = call.before.completeEmitted
       /\ ~call.before.running => frames = call.before.frames

\* stop() of a running scheduler in the middle of its timeline.
StopWitness ==
  /\ call.op = "stop"
  /\ call.before.running
  /\ call.before.frames = 1
  /\ 0 < pointer
  /\ pointer < Len(actions)

\* C14 At most one frame callback is pending at any time, and start() on a
\* running scheduler requests none and leaves the pointer and the completion
\* flag as they were.
StartOnceRunning ==
  /\ frames <= 1
  /\ (call.op = "start" /\ call.before.running) =>
       /\ running
       /\ frames = call.before.frames
       /\ pointer = call.before.pointer
       /\ completeEmitted = call.before.completeEmitted

\* start() called on a scheduler that was running, past its first action.
StartAgainWitness ==
  /\ call.op = "start"
  /\ call.before.running
  /\ frames = 1
  /\ pointer > 0

\* C15 After reset() the scheduler is not running, no frame callback is
\* pending, the pointer is the index syncPointer gives the clock's reading
\* (0 when the clock is at 0), and onReset was notified exactly once.  What
\* reset() leaves is a function of the action list and the clock alone, so a
\* second reset() in a row leaves the same scheduler state.
ResetRewindsToClock ==
  call.op = "reset" =>
    /\ ~running
    /\ frames = 0
    /\ ~frameHandle
    /\ pointer = (IF clock <= 0 THEN 0 ELSE CountBelow(actions, clock - ToleranceMs))
    /\ completeEmitted = (clock > 0 /\ pointer >= Len(actions))
    /\ call.notified = <<<<"onReset", None>>>>

\* reset() with the clock past some actions: the pointer is not rewound to 0.
ResetWitness ==
  /\ call.op = "reset"
  /\ clock > 0
  /\ pointer > 0
  /\ pointer < Len(actions)

\* C16 setActions(list) leaves the list sorted by ascending timeMs, the i-th
\* action of the caller's list keeping its time, and the pointer at the index
\* seekTo would choose for the clock's reading (0 at the origin); a timeline
\* newly loaded into the App is held by a scheduler with pointer 0.
SetActionsRepositions ==
  /\ call.op \in {"setActions", "loadTimeline"} =>
       /\ Len(actions) = Len(call.arg)
       /\ \A i \in 1..Len(call.arg) :
            \E n \in 1..Len(actions) : actions[n] = [id |-> i, timeMs |-> call.arg[i]]
       /\ \A m, n \in 1..Len(actions) : m < n => actions[m].timeMs <= actions[n].timeMs
  /\ call.op = "setActions" =>
       pointer = (IF clock <= 0 THEN 0 ELSE CountBelow(actions, clock - ToleranceMs))
  /\ call.op = "loadTimeline" => pointer = 0

\* C17 A type action executed in batch mode, whatever its rate, has its whole
\* text in the model of its path, pushed by the one mutation of the step that
\* executed it, and is never animated; no animation is active in batch mode.
BatchTypeAtomic ==
  /\ isBatch => (typingState = NoTyping /\ ~typingInterval)
  /\ \A i \in 1..typeCount :
       anim[i].mode = "batch" =>
         /\ EmittedIn(buffers, i, anim[i].path) = Chars(i, 0, anim[i].len)
         /\ \A p \in Paths \ {anim[i].path} : EmittedIn(buffers, i, p) = <<>>
         /\ anim[i].end = "none"
         /\ mutation.id = i => mutation = Mutation(anim[i].path, i, anim[i].len)

\* A type action with a typing rate and a text of two characters or more, just
\* executed in batch mode.
BatchTypeWitness ==
  \E i \in 1..typeCount :
    /\ anim[i].mode = "batch"
    /\ anim[i].rated
    /\ anim[i].len >= 2
    /\ mutation.id = i
    /\ isBatch

\* C18 Animator cancellation: an animation superseded by a type animation on
\* its own path has in the model exactly the characters it had emitted by then;
\* the animation that took its place has the first characters of its text in
\* the model and no others, each once, and, unless it is itself superseded or cancelled, or
\* the executor is paused, its whole text is eventually in the model.
AnimatorCancellation ==
  /\ [](\A i \in 1..typeCount :
          LET e == EmittedIn(buffers, i, anim[i].path)
          IN /\ (anim[i].end = "superseded" /\ anim[i].by = anim[i].path)
                  => SameChars(e, Chars(i, 0, anim[i].at))
             /\ anim[i].over => (SameChars(e, Chars(i, 0, Len(e))) /\ Len(e) <= anim[i].len))
  /\ \A j \in 1..MaxTypes :
       (anim[j].over /\ typingState.id = j)
         ~> \/ SameChars(EmittedIn(buffers, j, anim[j].path), Chars(j, 0, anim[j].len))
            \/ anim[j].end \in {"superseded", "cancelled"}
            \/ ~isPlaying

\* An animation cut short after its first character by a second one on the
\* same path, the second one run to completion.
AnimatorCancellationWitness ==
  \E i, j \in 1..typeCount :
    /\ anim[i].end = "superseded"
    /\ anim[i].by = anim[i].path
    /\ anim[i].at > 0
    /\ anim[i].at < anim[i].len
    /\ anim[j].over
    /\ anim[j].end = "completed"
    /\ SameChars(EmittedIn(buffers, j, anim[j].path), Chars(j, 0, anim[j].len))

\* C19 Animations are per path: an animation in progress is not ended by a
\* type animation that starts on a different path.
PerPathAnimations ==
  \A i \in 1..typeCount :
    anim[i].end = "superseded" => anim[i].by = anim[i].path

\* C20 While the executor is paused no step changes the state of the active
\* animation or the characters it has in the model; the characters in the
\* model are always the first offsetChars of its text; and an animation that a
\* tick found paused, once playing again, has its whole text in the model
\* eventually, unless it is superseded or cancelled or the executor paused again.
PauseFreezes ==
  /\ [][(~isPlaying /\ typingState # NoTyping /\ typingState'.id = typingState.id)
          => /\ typingState' = typingState
             /\ EmittedIn(buffers', typingState.id, typingState.path)
                  = EmittedIn(buffers, typingState.id, typingState.path)]_vars
  /\ [](typingState # NoTyping =>
          SameChars(EmittedIn(buffers, typingState.id, typingState.path),
                    Chars(typingState.id, 0, typingState.offsetChars)))
  /\ \A j \in 1..MaxTypes :
       (anim[j].paused # None /\ typingState.id = j /\ isPlaying)
         ~> \/ SameChars(EmittedIn(buffers, j, anim[j].path), Chars(j, 0, anim[j].len))
            \/ anim[j].end \in {"superseded", "cancelled"}
            \/ ~isPlaying

\* An animation that a tick found paused after its first character and that
\* later ran to completion.
PauseWitness ==
  \E j \in 1..typeCount :
    /\ anim[j].paused # None
    /\ anim[j].paused > 0
    /\ anim[j].paused < anim[j].len
    /\ anim[j].end = "completed"
    /\ SameChars(EmittedIn(buffers, j, anim[j].path), Chars(j, 0, anim[j].len))

\* C21 flushTypingNow(), alone or in onComplete, leaves no active animation;
\* with none active it changes no model; otherwise it pushes the n - k
\* characters the animation had left in one mutation, after which the model
\* holds every character of the text once.  Once the timeline has completed,
\* every type action has its whole text in its model, those apart whose
\* animation was replaced by a later animation on the same path.
FlushLeavesNothingTruncated ==
  /\ exec.kind \in {"flushTypingNow", "onComplete"} =>
       /\ typingState = NoTyping
       /\ ~typingInterval
       /\ \A j \in 1..typeCount :
            anim[j].end = "flushed" =>
              SameChars(EmittedIn(buffers, j, anim[j].path), Chars(j, 0, anim[j].len))
       /\ IF \E j \in 1..typeCount :
               anim[j].end = "flushed" /\ anim[j].at < anim[j].len /\ mutation.id = j
          THEN mutation.count = anim[mutation.id].len - anim[mutation.id].at
          ELSE mutation = NoMutation /\ buffers = exec.before.buffers
  /\ status = "complete" =>
       \A i \in 1..typeCount :
         \/ SameChars(EmittedIn(buffers, i, anim[i].path), Chars(i, 0, anim[i].len))
         \/ anim[i].end = "superseded" /\ anim[i].by = anim[i].path

\* C22 A create_file executed for a path that already has a model leaves that
\* model with the content of the action, whatever the content, the empty
\* content of an omitted field included.
CreateFileOverwrites ==
  (exec.kind = "create_file" /\ ~exec.threw /\ exec.path \in exec.before.models) =>
    buffers[exec.path] = Chars(0, 0, exec.arg)

\* C23 A create_file raises file-opened for its path, and file-created only
\* when no create_file has been executed for the path before.
FileCreatedOnlyOnce ==
  (exec.kind = "create_file" /\ ~exec.threw) =>
    /\ \E n \in 1..Len(exec.events) : exec.events[n] = <<"onFileOpened", exec.path>>
    /\ (\E n \in 1..Len(exec.events) : exec.events[n] = <<"onFileCreated", exec.path>>)
         <=> exec.path \notin exec.createdBefore

\* C24 reset() ends without an exception and leaves no model, no opened path,
\* no highlight decoration, no pending highlight timer and no typing
\* animation, having raised file-opened with no path.
ExecutorResetClears ==
  exec.kind = "reset" =>
    /\ ~exec.threw
    /\ models = {}
    /\ \A p \in Paths : buffers[p] = <<>>
    /\ openedPath = ""
    /\ highlightDecorations = 0
    /\ timers = {}
    /\ typingState = NoTyping
    /\ ~typingInterval
    /\ exec.events = <<<<"onFileOpened", "">>>>

\* C25 An action of any kind executed while no editor is attached raises no
\* exception and leaves the document as it found it.
DetachedExecuteSkips ==
  (~editor /\ exec.kind \notin {"none", "reset"}) =>
    /\ ~exec.threw
    /\ Doc = exec.before

\* C28 At most one highlight-removal timer is pending, and it belongs to the
\* highlight shown; the decoration of a highlight is removed by its own timer
\* only, so a highlight without durationMs is shown until a later highlight
\* takes its place.
OneHighlightTimer ==
  /\ Cardinality(timers) <= 1
  /\ \A h \in timers : h = highlightDecorations /\ highlights[h].durationMs # 0
  /\ \A h \in 1..hlCount :
       /\ highlights[h].removedBy \in {0, h}
       /\ highlights[h].durationMs = 0 =>
            /\ highlights[h].removedBy = 0
            /\ h = hlCount => highlightDecorations = h

\* A highlight with a durationMs replaced, before its timer ran, by a highlight
\* without one: no timer is pending and the second highlight is shown.
HighlightTimerWitness ==
  /\ hlCount = 2
  /\ highlights[1].durationMs # 0
  /\ highlights[1].removedBy = 0
  /\ highlights[2].durationMs = 0
  /\ timers = {}
  /\ highlightDecorations = 2

\* C29 open_file, type, move_cursor and highlight_range, executed with the
\* editor attached, leave their path with a model and opened in the editor,
\* file-opened raised for it if it was not the opened path; a path that had no
\* model gets an empty one, which a type action then receives its text in; no
\* other model changes.
ImplicitCreate ==
  (exec.kind \in {"open_file", "type", "move_cursor", "highlight_range"} /\ editor) =>
    /\ ~exec.threw
    /\ models = exec.before.models \cup {exec.path}
    /\ openedPath = exec.path
    /\ exec.before.openedPath # exec.path =>
         \E n \in 1..Len(exec.events) : exec.events[n] = <<"onFileOpened", exec.path>>
    /\ \A p \in Paths \ {exec.path} : buffers[p] = exec.before.buffers[p]
    /\ exec.kind # "type" => buffers[exec.path] = exec.before.buffers[exec.path]
    /\ exec.kind = "type" =>
         /\ EmittedIn(buffers, typeCount, exec.path) = Chars(typeCount, 0, exec.arg)
         /\ Len(buffers[exec.path]) = Len(exec.before.buffers[exec.path]) + exec.arg
    /\ exec.path \notin exec.before.models => exec.before.buffers[exec.path] = <<>>

\* A type action on a path without a model while the other path is opened.
ImplicitCreateWitness ==
  /\ exec.kind = "type"
  /\ exec.path \notin exec.before.models
  /\ exec.before.openedPath \in Paths
  /\ exec.before.openedPath # exec.path
  /\ openedPath = exec.path
  /\ buffers[exec.path] = Chars(typeCount, 0, exec.arg)
  /\ exec.arg >= 1

\* C26 Forward progress: after a tick in which the action-fired callback threw
\* for one action, the scheduler is past every action that was due at that
\* tick and, still running, has its next frame requested.
ForwardProgress ==
  last.op = "tick/threw" =>
    /\ pointer >= last.from + Len(last.batch)
    /\ pointer >= CountDue(actions, last.now)
    /\ running => frames > 0

\* C27 A timeline load that fails, from the URL or from a chosen file, leaves
\* an error message shown and the fallback timeline as the action list.
LoadFailureFallsBack ==
  call.op \in {"fetchShowFromUrl/failed", "handleTimelineFileSelection/failed"} =>
    /\ timelineError # ""
    /\ timelineActions = FallbackTimeline

\* C30 When the run is complete, every buffer holds what the same actions
\* give when each is executed in batch mode.
LiveMatchesBatch ==
  status = "complete" => buffers = shadow.buffers

\* C31 A tick that read the clock value now fired exactly the actions from the
\* pointer on whose timeMs - toleranceMs <= now, in order, each with
\* actualTimeMs = now and driftMs = now - timeMs >= -toleranceMs; if it left
\* the pointer below the action count, the action at the pointer is not due.
TickFiresDue ==
  last.op = "tick" =>
    /\ pointer = last.from + Len(last.batch)
    /\ \A i \in 1..Len(actions) :
         (i > last.from /\ actions[i].timeMs - ToleranceMs <= last.now)
           <=> (i > last.from /\ i <= pointer)
    /\ \A n \in 1..Len(last.batch) :
         /\ last.batch[n].id = actions[last.from + n].id
         /\ last.batch[n].scheduledTimeMs = actions[last.from + n].timeMs
         /\ last.batch[n].actualTimeMs = last.now
         /\ last.batch[n].driftMs = last.now - actions[last.from + n].timeMs
         /\ last.batch[n].driftMs >= 0 - ToleranceMs
    /\ pointer < Len(actions) => actions[pointer + 1].timeMs - ToleranceMs > last.now

\* A tick that fired an action a whole tolerance early and left the next one,
\* not yet due, unfired.
TickFiresDueWitness ==
  /\ last.op = "tick"
  /\ Len(last.batch) = 1
  /\ last.batch[1].driftMs = 0 - ToleranceMs
  /\ pointer < Len(actions)
  /\ actions[pointer + 1].timeMs - ToleranceMs > last.now

\* C32 Bounded lateness: between start, stop, ticks and the clock moving
\* forward, a tick that reads n2 after the previous tick read n1 fires every
\* action with driftMs < n2 - n1.
BoundedLateness ==
  [][(last'.op = "tick" /\ seenNow # None)
       => \A n \in 1..Len(last'.batch) : last'.batch[n].driftMs < last'.now - seenNow]_vars

\* A second tick, one clock step after the first, has fired an action late.
BoundedLatenessWitness ==
  /\ last.op = "tick"
  /\ Len(fired) > Len(last.batch)
  /\ Len(last.batch) >= 1
  /\ last.batch[1].driftMs >= 0
  /\ last.now > 0

\* C33 Liveness: a running scheduler whose frames are delivered and whose
\* clock keeps moving forward up to the last action's timeMs eventually has
\* fired every action, raised onComplete in the tick that reached the end and
\* stopped polling.
RunCompletes ==
  running ~>
    /\ ~running
    /\ frames = 0
    /\ ~frameHandle
    /\ pointer = Len(actions)
    /\ completeEmitted
    /\ last.op = "tick"
    /\ last.raised
    /\ \A i \in 1..Len(actions) : \E n \in 1..Len(fired) : fired[n].id = actions[i].id

\* A run of two actions that has ended: the clock went to the last action's
\* time, both were fired and the completing tick stopped the scheduler.
RunCompletesWitness ==
  /\ Len(actions) = 2
  /\ actions[2].timeMs = MaxTick * TimeStep
  /\ Len(fired) = 2
  /\ last.op = "tick"
  /\ last.raised
  /\ ~running
  /\ frames = 0

\* C34 The 'seeked' event of a seekTo, delivered to a running scheduler after
\* ticks have fired actions since that seekTo, does not move the pointer back
\* before any of them.
SeekedFiresNoneTwice ==
  [][(last'.op = "seeked" /\ running /\ seeking.from # None /\ pointer > seeking.from)
       => pointer' >= pointer]_vars

\* C35 Typing rate: after k ticks have pushed characters of an animation of
\* cps characters per second, the number of characters pushed is within one
\* chunk of k * 16 * cps / 1000 (from below as long as text is left, and
\* always from above).  One character is 1000 units.
TypingRateKept ==
  typingState # NoTyping =>
    LET k == anim[typingState.id].ticks
        pushed == typingState.offsetChars * 1000
        target == k * TypingTickMs * typingState.cps
        chunk == ChunkSize(typingState.cps) * 1000
    IN /\ pushed - target <= chunk
       /\ typingState.offsetChars < typingState.len => target - pushed <= chunk

\* C36 No orphaned timer callbacks: the step that follows reset() is not a
\* tick of the typing animation pushing characters; an animation cancelled by
\* beginBatch() pushes no character afterwards; and a highlight-removal timer
\* that removes the decoration shown removes the one of its own highlight.
NoOrphanedTimers ==
  [][/\ exec.kind = "reset" =>
          ~(/\ typingState # NoTyping
            /\ typingState'.id = typingState.id
            /\ typingState'.offsetChars > typingState.offsetChars)
     /\ \A j \in 1..typeCount :
          anim[j].end = "cancelled" =>
            EmittedIn(buffers', j, anim[j].path) = EmittedIn(buffers, j, anim[j].path)
     /\ \A h \in timers :
          (h \notin timers' /\ highlightDecorations # 0 /\ highlightDecorations' = 0)
            => highlightDecorations = h]_vars

\* C37 While the executor is in batch mode no typing animation is active, and
\* an animation cancelled by beginBatch() has in its model exactly the
\* characters it had emitted by then: the rest of its text is discarded.
BatchHasNoAnimation ==
  /\ isBatch => (typingState = NoTyping /\ ~typingInterval)
  /\ \A j \in 1..typeCount :
       anim[j].end = "cancelled" =>
         SameChars(EmittedIn(buffers, j, anim[j].path), Chars(j, 0, anim[j].at))

\* In batch mode, after beginBatch() cancelled an animation that had emitted
\* one of its two characters.
BatchCancelWitness ==
  /\ isBatch
  /\ \E j \in 1..typeCount :
       /\ anim[j].end = "cancelled"
       /\ anim[j].len = 2
       /\ anim[j].at = 1
       /\ EmittedIn(buffers, j, anim[j].path) = Chars(j, 0, 1)

\* C38 Completion is re-armed by moving back: a seekTo, a clock jump ('seeked')
\* or a primeAfter that finds onComplete raised and leaves the pointer below
\* the action count clears the completion flag; and a tick that takes the
\* pointer from below the action count to the end raises onComplete, for the
\* first time since the pointer was put there.
CompletionRearmed ==
  /\ [][(/\ passRaised >= 1
         /\ call'.op \in {"seekTo", "handleSeek", "primeAfter"}
         /\ pointer' < Len(actions'))
          => ~completeEmitted']_vars
  /\ []((last.op = "tick" /\ last.from < Len(actions) /\ pointer = Len(actions))
          => (last.raised /\ last.before = 0 /\ runRaised = 1 /\ completeEmitted /\ ~running))

\* A seekTo found the timeline completed and moved the pointer back; start()
\* and ticks then reached the end and onComplete was raised again, once.
CompletionRearmedWitness ==
  /\ seeking.completed
  /\ seeking.from < Len(actions)
  /\ last.op = "tick"
  /\ last.raised
  /\ pointer = Len(actions)
  /\ runRaised = 1

====
